---- MODULE Spec2Model ----
(***************************************************************************)
(* A model of VamTimelineTool's editing core: the keyframe codec           *)
(* (keyframe_logic.py), the clip data model (data_models.py) and the       *)
(* AppLogic operations on the loaded animation file (app_logic.py).         *)
(*                                                                         *)
(* Numbers.  A keyframe time or value is a Python float.  The model counts *)
(* them in ticks of 2^-24 (about 5.96e-8), so that the codec's 1e-7        *)
(* change-detection tolerance separates a difference of one tick (no       *)
(* change) from a difference of two ticks (a change), and every multiple   *)
(* of a tick of magnitude at most 1.0 is an exact IEEE-754 single.         *)
(* struct.pack('<f') is modelled bit for bit on that grid (sign, biased    *)
(* exponent, 23-bit mantissa, round-half-even above 2^24 ticks) and a       *)
(* token is the string the Python builds.                                  *)
(***************************************************************************)
EXTENDS Integers, Sequences, FiniteSets, TLC

VARIABLES
    animation_file,     \* AppLogic.animation_file: [loaded, clips, is_scene, atom_type]; loaded = FALSE is None
    dirty,              \* current_file_path carries the " *" marker
    next_id,            \* identity of the next clip object that is created
    pre,                \* animation_file and dirty as they were before the last operation
    last,               \* the last operation: its name, inputs and outcome
    steps,              \* number of operations performed
    cx                  \* the codec call of SpecCodec: its inputs, the token, the decoded keyframe

vars == <<animation_file, dirty, next_id, pre, last, steps, cx>>

None == "None"

----------------------------------------------------------------------------
(* Sequence helpers (Python list idioms).                                  *)

Range(s) == {s[i] : i \in DOMAIN s}

RECURSIVE SelectIdx(_, _, _)
\* [i for i in range(from, len(s)+1) if Test(s[i])]: indices kept in order
SelectIdx(s, keep, from) ==
    IF from > Len(s) THEN <<>>
    ELSE IF from \in keep THEN <<s[from]>> \o SelectIdx(s, keep, from + 1)
         ELSE SelectIdx(s, keep, from + 1)

\* the sub-list of s at the positions in keep, order preserved
Keep(s, keep) == SelectIdx(s, keep, 1)

Abs(x) == IF x < 0 THEN -x ELSE x

Min2(a, b) == IF a < b THEN a ELSE b

\* Python slice s[from0 : to0] of a string, 0-based, end-exclusive, clamped
Slice(s, from0, to0) == IF from0 >= Min2(to0, Len(s)) THEN "" ELSE SubSeq(s, from0 + 1, Min2(to0, Len(s)))

----------------------------------------------------------------------------
(* Floats on the tick grid and struct.pack / struct.unpack.                *)

Pow2(n) == 2 ^ n

\* one unit (1.0) in ticks
Unit == Pow2(24)

\* the exponent e with 2^e <= n < 2^(e+1), 0 for n < 2
Log2Floor(n) ==
    IF n < 2 THEN 0
    ELSE CHOOSE e \in 1..30 : Pow2(e) <= n /\ (e = 30 \/ n < Pow2(e + 1))

\* round half to even: the quotient q of a division that left remainder r, half
\* being half the divisor
RoundHalfEven(q, r, half) == IF r > half \/ (r = half /\ q % 2 = 1) THEN q + 1 ELSE q

\* k rounded to a multiple of 2^s ticks
RoundToPow2(k, s) ==
    (IF k < 0 THEN -1 ELSE 1)
    * RoundHalfEven(Abs(k) \div Pow2(s), Abs(k) % Pow2(s), Pow2(s - 1)) * Pow2(s)

\* the single-precision float nearest to k ticks (24 significant bits), in ticks
RoundF32(k) == IF Abs(k) < Pow2(24) THEN k ELSE RoundToPow2(k, Log2Floor(Abs(k)) - 23)

\* the 23 stored mantissa bits of a ticks, 2^e <= a < 2^(e+1)
Mantissa(a, e) ==
    IF e <= 23 THEN a * Pow2(23 - e) - Pow2(23) ELSE (a \div Pow2(e - 23)) - Pow2(23)

\* sign bit S, biased exponent E and mantissa M laid out in four little-endian bytes
PackFields(S, E, M) ==
    << M % 256, (M \div 256) % 256, (E % 2) * 128 + (M \div 65536), S * 128 + (E \div 2) >>

\* the bytes of a single f (in ticks): one tick is 2^-24, so the biased exponent of
\* 2^e ticks is e - 24 + 127
PackSingle(f) ==
    IF f = 0 THEN PackFields(0, 0, 0)
    ELSE PackFields(IF f < 0 THEN 1 ELSE 0, Log2Floor(Abs(f)) + 103,
                    Mantissa(Abs(f), Log2Floor(Abs(f))))

\* the four bytes of struct.pack('<f', k ticks), little-endian
PackF32(k) == PackSingle(RoundF32(k))

OffGrid == "OffGrid"

\* struct.unpack('<f', bytes) in ticks; OffGrid for a float that is no multiple
\* of a tick below 128.0 (denormals, NaN, infinities and finer fractions)
UnpackF32(b) ==
    LET S == b[4] \div 128
        E == (b[4] % 128) * 2 + (b[3] \div 128)
        M == (b[3] % 128) * 65536 + b[2] * 256 + b[1]
        m == Pow2(23) + M
        sh == E - 126
        sg == IF S = 1 THEN -1 ELSE 1
    IN  IF E = 0 /\ M = 0 THEN 0
        ELSE IF E = 0 \/ E = 255 \/ sh > 6 THEN OffGrid
        ELSE IF sh >= 0 THEN sg * m * Pow2(sh)
        ELSE IF sh < -24 THEN OffGrid
        ELSE IF m % Pow2(-sh) = 0 THEN sg * (m \div Pow2(-sh))
        ELSE OffGrid

\* the i-th character of a string, as a string
Char(s, i) == SubSeq(s, i, i)

HexDigits == "0123456789ABCDEF"

\* bytes.hex().upper() of one byte
HexByte(b) == Char(HexDigits, (b \div 16) + 1) \o Char(HexDigits, (b % 16) + 1)

RECURSIVE HexOf(_)
HexOf(bytes) == IF bytes = <<>> THEN "" ELSE HexByte(Head(bytes)) \o HexOf(Tail(bytes))

IsHexChar(ch) == \E i \in 1..16 : Char(HexDigits, i) = ch

HexVal(ch) == (CHOOSE i \in 1..16 : Char(HexDigits, i) = ch) - 1

\* bytes.fromhex(h) raises ValueError on an odd length or a non-hex character
HexOk(h) == Len(h) % 2 = 0 /\ \A i \in 1..Len(h) : IsHexChar(Char(h, i))

\* bytes.fromhex(h) of a well-formed h
FromHex(h) ==
    [i \in 1..(Len(h) \div 2) |-> HexVal(Char(h, 2 * i - 1)) * 16 + HexVal(Char(h, 2 * i))]

\* struct.unpack(fmt, bytes.fromhex(h)) succeeds: h is hex of exactly n bytes
Unpackable(h, n) == HexOk(h) /\ Len(h) = 2 * n

\* ord(ch) for the characters tokens are made of in the model
OrdDigits == "0123456789"
OrdUpper == "ABCDEFGH"
Ord(ch) ==
    IF \E i \in 1..10 : Char(OrdDigits, i) = ch
    THEN 47 + (CHOOSE i \in 1..10 : Char(OrdDigits, i) = ch)
    ELSE 64 + (CHOOSE i \in 1..8 : Char(OrdUpper, i) = ch)

\* chr(ord('A') + n) for n in 0..3
FlagChar(n) == Char(OrdUpper, n + 1)

----------------------------------------------------------------------------
(* keyframe_logic.py                                                       *)

\* a wider change detection: differences of two and three ticks pass as no change
ValueChangedLoose(last_v, value) == Abs(last_v - value) >= 4

\* abs(last_v - value) > 1e-7, in ticks: 1e-7 lies between one and two ticks
ValueChanged(last_v, value) == Abs(last_v - value) >= 2

\* a faulty variant: value and curve type are written whether they changed or not
encode_keyframe_full(time, value, curve_type, last_v, last_c) ==
    FlagChar(3) \o HexOf(PackF32(time)) \o HexOf(PackF32(value)) \o HexByte(curve_type)

\* KeyframeEncoder.encode_keyframe
encode_keyframe(time, value, curve_type, last_v, last_c) ==
    LET has_value      == ValueChanged(last_v, value)
        has_curve_type == last_c # curve_type
        encoded_value  == (IF has_value THEN 1 ELSE 0) + (IF has_curve_type THEN 2 ELSE 0)
    IN  FlagChar(encoded_value)
        \o HexOf(PackF32(time))
        \o (IF has_value THEN HexOf(PackF32(value)) ELSE "")
        \o (IF has_curve_type THEN HexByte(curve_type) ELSE "")

DecodeError == [ok |-> FALSE, time |-> 0, value |-> 0, curve_type |-> 0]

\* a faulty variant: a curve type the token is too short to hold is taken from the
\* predecessor
decode_keyframe_lenient(encoded_str, last_v, last_c) ==
    IF encoded_str = "" THEN DecodeError
    ELSE
    LET encoded_value  == Ord(Char(encoded_str, 1)) - 65
        has_value      == encoded_value % 2 = 1
        has_curve_type == (encoded_value \div 2) % 2 = 1
        time_hex       == Slice(encoded_str, 1, 9)
        value_hex      == Slice(encoded_str, 9, 17)
        ptr2           == IF has_value THEN 17 ELSE 9
        curve_type_hex == Slice(encoded_str, ptr2, ptr2 + 2)
    IN  IF ~Unpackable(time_hex, 4) THEN DecodeError
        ELSE IF has_value /\ ~Unpackable(value_hex, 4) THEN DecodeError
        ELSE [ok         |-> TRUE,
              time       |-> UnpackF32(FromHex(time_hex)),
              value      |-> IF has_value THEN UnpackF32(FromHex(value_hex)) ELSE last_v,
              curve_type |-> IF has_curve_type /\ Unpackable(curve_type_hex, 1)
                             THEN FromHex(curve_type_hex)[1] ELSE last_c]

\* KeyframeDecoder.decode_keyframe: [ok, time, value, curve_type], or DecodeError
\* where the Python raises (ValueError or struct.error)
decode_keyframe(encoded_str, last_v, last_c) ==
    IF encoded_str = "" THEN DecodeError
    ELSE
    LET encoded_value  == Ord(Char(encoded_str, 1)) - 65
        has_value      == encoded_value % 2 = 1
        has_curve_type == (encoded_value \div 2) % 2 = 1
        time_hex       == Slice(encoded_str, 1, 9)
        ptr1           == 9
        value_hex      == Slice(encoded_str, ptr1, ptr1 + 8)
        ptr2           == IF has_value THEN ptr1 + 8 ELSE ptr1
        curve_type_hex == Slice(encoded_str, ptr2, ptr2 + 2)
    IN  IF ~Unpackable(time_hex, 4) THEN DecodeError
        ELSE IF has_value /\ ~Unpackable(value_hex, 4) THEN DecodeError
        ELSE IF has_curve_type /\ ~Unpackable(curve_type_hex, 1) THEN DecodeError
        ELSE [ok         |-> TRUE,
              time       |-> UnpackF32(FromHex(time_hex)),
              value      |-> IF has_value THEN UnpackF32(FromHex(value_hex)) ELSE last_v,
              curve_type |-> IF has_curve_type THEN FromHex(curve_type_hex)[1] ELSE last_c]

----------------------------------------------------------------------------
(* data_models.py: clips and their targets.                                *)
(* A clip object is a record; "id" is the object's identity (Python id()), *)
(* assigned when the object is created and never reused.                   *)

\* FloatParameter(storable, name, value, min_val, max_val)
FloatParameter(storable, name, value, min_val, max_val) ==
    [storable |-> storable, name |-> name, value |-> value, min |-> min_val, max |-> max_val]

\* ControllerTarget(controller_id, **kwargs): the seven axis lists always exist
ControllerTarget(controller_id, X, Y, Z, RotX, RotY, RotZ, RotW, extra) ==
    [id |-> controller_id,
     properties |-> [X |-> X, Y |-> Y, Z |-> Z, RotX |-> RotX, RotY |-> RotY,
                     RotZ |-> RotZ, RotW |-> RotW, extra |-> extra]]

\* TriggerGroup(name, live, triggers)
TriggerGroup(name, live, triggers) == [name |-> name, live |-> live, triggers |-> triggers]

\* AnimationClip(...): other_properties is reduced to its NextAnimationName entry
AnimationClip(id, name, segment, layer, length, order_index, atom_id, storable_id, next_name) ==
    [id |-> id, name |-> name, segment |-> segment, layer |-> layer, length |-> length,
     order_index |-> order_index, atom_id |-> atom_id, storable_id |-> storable_id,
     NextAnimationName |-> next_name,
     float_params |-> <<>>, controllers |-> <<>>, trigger_groups |-> <<>>]

Standalone == "(Standalone)"

\* AnimationFile(); loaded = FALSE stands for AppLogic.animation_file = None
AnimationFile(clips, is_scene, atom_type) ==
    [loaded |-> TRUE, clips |-> clips, is_scene |-> is_scene, atom_type |-> atom_type]

NoFile == [loaded |-> FALSE, clips |-> <<>>, is_scene |-> FALSE, atom_type |-> None]

\* the keys of a clip's targets
FpKey(p) == <<p.storable, p.name>>
FpKeys(c) == {FpKey(c.float_params[i]) : i \in DOMAIN c.float_params}
CtrlIds(c) == {c.controllers[i].id : i \in DOMAIN c.controllers}
TgNames(c) == {c.trigger_groups[i].name : i \in DOMAIN c.trigger_groups}

\* positions of a clip list that satisfy a layer key
InLayer(c, atom_id, seg, layer) == c.atom_id = atom_id /\ c.segment = seg /\ c.layer = layer

IdsOf(clips) == {clips[i].id : i \in DOMAIN clips}

\* the object with identity id in a clip list
ClipById(clips, id) == clips[CHOOSE i \in DOMAIN clips : clips[i].id = id]

\* list.remove(obj): drops the first (only) entry that is the object
RemoveById(clips, id) == Keep(clips, {i \in DOMAIN clips : clips[i].id # id})

\* the list with object id replaced by its mutated state
Mutate(clips, id, new) == [i \in DOMAIN clips |-> IF clips[i].id = id THEN new ELSE clips[i]]

\* max((c.order_index for c in clips), default=-1)
RECURSIVE MaxOrder(_)
MaxOrder(clips) ==
    IF clips = <<>> THEN -1
    ELSE LET m == MaxOrder(Tail(clips))
         IN  IF Head(clips).order_index > m THEN Head(clips).order_index ELSE m

----------------------------------------------------------------------------
(* app_logic.py: queries.                                                  *)

\* AppLogic.get_layer_clips: a standalone file ignores the atom id
get_layer_clips(file, atom_id, segment_name, layer_name) ==
    IF ~file.loaded THEN <<>>
    ELSE Keep(file.clips,
              {i \in DOMAIN file.clips :
                  /\ (~file.is_scene \/ file.clips[i].atom_id = atom_id)
                  /\ file.clips[i].segment = segment_name
                  /\ file.clips[i].layer = layer_name})

\* AppLogic._get_layer_signature over clips_source
get_layer_signature(clips_source, atom_id, seg_name, layer_name) ==
    LET clips_in_layer ==
            {clips_source[i] : i \in {j \in DOMAIN clips_source :
                                        InLayer(clips_source[j], atom_id, seg_name, layer_name)}}
    IN  << UNION {FpKeys(c) : c \in clips_in_layer},
           UNION {CtrlIds(c) : c \in clips_in_layer},
           UNION {TgNames(c) : c \in clips_in_layer} >>

----------------------------------------------------------------------------
(* app_logic.py: merge_layers.                                             *)

RECURSIVE FirstSeen(_, _)
\* the distinct entries of a list in order of first appearance (dict key order)
FirstSeen(keys, seen) ==
    IF keys = <<>> THEN <<>>
    ELSE IF Head(keys) \in seen THEN FirstSeen(Tail(keys), seen)
         ELSE <<Head(keys)>> \o FirstSeen(Tail(keys), seen \cup {Head(keys)})

RECURSIVE FlatFp(_)
FlatFp(clips) == IF clips = <<>> THEN <<>> ELSE Head(clips).float_params \o FlatFp(Tail(clips))
RECURSIVE FlatCtrl(_)
FlatCtrl(clips) == IF clips = <<>> THEN <<>> ELSE Head(clips).controllers \o FlatCtrl(Tail(clips))
RECURSIVE FlatTg(_)
FlatTg(clips) == IF clips = <<>> THEN <<>> ELSE Head(clips).trigger_groups \o FlatTg(Tail(clips))

\* a faulty variant: a dict that keeps the first item of a key
DictValueFirst(items, keys, k) ==
    items[CHOOSE i \in DOMAIN items :
            keys[i] = k /\ \A j \in DOMAIN items : (j < i => keys[j] # k)]

\* the value a dict comprehension {key(x): x for x in items} holds for key k:
\* a later item overwrites an earlier one
DictValue(items, keys, k) ==
    items[CHOOSE i \in DOMAIN items :
            keys[i] = k /\ \A j \in DOMAIN items : (j > i => keys[j] # k)]

\* master_fp / master_c / master_tg of merge_layers: [order, items, keys]
MasterMap(items, keys) == [order |-> FirstSeen(keys, {}), items |-> items, keys |-> keys]

master_fp(all_clips) ==
    LET items == FlatFp(all_clips)
    IN  MasterMap(items, [i \in DOMAIN items |-> FpKey(items[i])])
master_c(all_clips) ==
    LET items == FlatCtrl(all_clips)
    IN  MasterMap(items, [i \in DOMAIN items |-> items[i].id])
master_tg(all_clips) ==
    LET items == FlatTg(all_clips)
    IN  MasterMap(items, [i \in DOMAIN items |-> items[i].name])

MasterTemplate(master, k) == DictValue(master.items, master.keys, k)

\* f"{base_name} (merged)", then f"{base_name} (merged {counter})" for counter = 2, 3, ...
MergedTgName(base_name, counter) ==
    IF counter = 1 THEN base_name \o " (merged)"
    ELSE base_name \o " (merged " \o ToString(counter) \o ")"

\* merge_layers without the renaming of lines 143-148: the copy keeps its name
TgNameKept(base_name, names) == base_name

\* the name the while loop of merge_layers stops at
FreshTgName(base_name, names) ==
    MergedTgName(base_name,
        CHOOSE k \in 1..(Cardinality(names) + 1) :
            /\ MergedTgName(base_name, k) \notin names
            /\ \A j \in 1..(k - 1) : MergedTgName(base_name, j) \in names)

RECURSIVE MergeTriggerGroups(_, _)
\* the target clip's trigger groups after the loop over the source clip's groups
MergeTriggerGroups(src_tgs, tgt_tgs) ==
    IF src_tgs = <<>> THEN tgt_tgs
    ELSE LET src_tg == Head(src_tgs)
             current_tgt_tg_names == {tgt_tgs[i].name : i \in DOMAIN tgt_tgs}
             added == IF src_tg.name \notin current_tgt_tg_names THEN src_tg
                      ELSE [src_tg EXCEPT !.name = FreshTgName(src_tg.name, current_tgt_tg_names)]
         IN  MergeTriggerGroups(Tail(src_tgs), Append(tgt_tgs, added))

\* the matching target clip after a source clip (another object) was merged into it
MergeClipInto(src_clip, tgt_clip) ==
    LET existing_fp_keys == FpKeys(tgt_clip)
        existing_c_ids   == CtrlIds(tgt_clip)
    IN  [tgt_clip EXCEPT
            !.float_params = @ \o Keep(src_clip.float_params,
                {i \in DOMAIN src_clip.float_params :
                    FpKey(src_clip.float_params[i]) \notin existing_fp_keys}),
            !.controllers = @ \o Keep(src_clip.controllers,
                {i \in DOMAIN src_clip.controllers :
                    src_clip.controllers[i].id \notin existing_c_ids}),
            !.trigger_groups = MergeTriggerGroups(src_clip.trigger_groups, @)]

\* next((c for c in tgt_clips if c.name == name), None): the identity, or 0 for None
MatchingTgt(tgt_clips, name) ==
    IF \E i \in DOMAIN tgt_clips : tgt_clips[i].name = name
    THEN tgt_clips[CHOOSE i \in DOMAIN tgt_clips :
                      tgt_clips[i].name = name
                      /\ \A j \in DOMAIN tgt_clips : (j < i => tgt_clips[j].name # name)].id
    ELSE 0

\* a source clip that is its own matching target and has a trigger group: the loop
\* over src_clip.trigger_groups appends to the list it iterates and never ends
MergeLayersDiverges(src_clips, tgt_clips) ==
    \E i \in DOMAIN src_clips :
        /\ MatchingTgt(tgt_clips, src_clips[i].name) = src_clips[i].id
        /\ src_clips[i].trigger_groups # <<>>

RECURSIVE MergeSourceClips(_, _, _, _)
\* the loop "for src_clip in src_clips" over the file's clip list
MergeSourceClips(clips, src_ids, tgt_clips, tgt_layer_name) ==
    IF src_ids = <<>> THEN clips
    ELSE
    LET src_clip == ClipById(clips, Head(src_ids))
        match    == MatchingTgt(tgt_clips, src_clip.name)
        merged   == IF match = 0 THEN Mutate(clips, src_clip.id, [src_clip EXCEPT !.layer = tgt_layer_name])
                    ELSE IF match = src_clip.id \/ match \notin IdsOf(clips)
                         THEN RemoveById(clips, src_clip.id)
                    ELSE RemoveById(
                            Mutate(clips, match, MergeClipInto(src_clip, ClipById(clips, match))),
                            src_clip.id)
    IN  MergeSourceClips(merged, Tail(src_ids), tgt_clips, tgt_layer_name)

\* a flat two-keyframe curve of value v spanning the clip
FlatCurve(length, v) == << encode_keyframe(0, v, 3, 0, -1), encode_keyframe(length, v, 3, v, 3) >>

EmptyTriggers(length) ==
    << [startTime |-> 0, endTime |-> length, startActions |-> <<>>,
        transitionActions |-> <<>>, endActions |-> <<>>] >>

\* a faulty variant: a harmonization pass that adds nothing
HarmonizeNothing(clip, m_fp, m_c, m_tg) == clip

\* the harmonization pass on one clip of the target layer
Harmonize(clip, m_fp, m_c, m_tg) ==
    LET clip_fp_keys  == FpKeys(clip)
        clip_c_ids    == CtrlIds(clip)
        clip_tg_names == TgNames(clip)
        miss_fp == Keep(m_fp.order, {i \in DOMAIN m_fp.order : m_fp.order[i] \notin clip_fp_keys})
        miss_c  == Keep(m_c.order, {i \in DOMAIN m_c.order : m_c.order[i] \notin clip_c_ids})
        miss_tg == Keep(m_tg.order, {i \in DOMAIN m_tg.order : m_tg.order[i] \notin clip_tg_names})
    IN  [clip EXCEPT
            !.float_params = @ \o [i \in DOMAIN miss_fp |->
                LET t_param == MasterTemplate(m_fp, miss_fp[i])
                IN  FloatParameter(t_param.storable, t_param.name, FlatCurve(clip.length, 0),
                                   t_param.min, t_param.max)],
            !.controllers = @ \o [i \in DOMAIN miss_c |->
                LET t_ctrl == MasterTemplate(m_c, miss_c[i])
                    flat0  == FlatCurve(clip.length, 0)
                IN  ControllerTarget(miss_c[i], flat0, flat0, flat0, flat0, flat0, flat0,
                                     << encode_keyframe(0, Unit, 3, 0, -1),
                                        encode_keyframe(clip.length, Unit, 3, Unit, 3) >>,
                                     t_ctrl.properties.extra)],
            !.trigger_groups = @ \o [i \in DOMAIN miss_tg |->
                TriggerGroup(miss_tg[i], MasterTemplate(m_tg, miss_tg[i]).live,
                             EmptyTriggers(clip.length))]]

\* a guard that compares the atoms only
MergeLayersRejectedByAtom(src_layer_data, tgt_layer_data) ==
    src_layer_data[1] # tgt_layer_data[1]

\* the guard of merge_layers: the layers are not of one segment of one atom
MergeLayersRejected(src_layer_data, tgt_layer_data) ==
    src_layer_data[1] # tgt_layer_data[1] \/ src_layer_data[2] # tgt_layer_data[2]

\* AppLogic.merge_layers past its Invalid Operation guard: the file's new clip list
merge_layers(file, atom_id, seg_name, src_layer_name, tgt_layer_name) ==
    LET src_clips == get_layer_clips(file, atom_id, seg_name, src_layer_name)
        tgt_clips == get_layer_clips(file, atom_id, seg_name, tgt_layer_name)
        all_clips == src_clips \o tgt_clips
        m_fp      == master_fp(all_clips)
        m_c       == master_c(all_clips)
        m_tg      == master_tg(all_clips)
        merged    == MergeSourceClips(file.clips, [i \in DOMAIN src_clips |-> src_clips[i].id],
                                      tgt_clips, tgt_layer_name)
        final_ids == IdsOf(get_layer_clips([file EXCEPT !.clips = merged],
                                           atom_id, seg_name, tgt_layer_name))
    IN  [i \in DOMAIN merged |->
            IF merged[i].id \in final_ids THEN Harmonize(merged[i], m_fp, m_c, m_tg)
            ELSE merged[i]]

----------------------------------------------------------------------------
(* app_logic.py: merge_animation_file.                                     *)

\* the layer names "{name}", "{name}_1", "{name}_2", ... of the two naming loops
SuffixedName(name, counter) == IF counter = 0 THEN name ELSE name \o "_" \o ToString(counter)

\* the first of them that is not in used
FreshSuffixedName(name, used) ==
    SuffixedName(name,
        CHOOSE k \in 0..Cardinality(used) :
            /\ SuffixedName(name, k) \notin used
            /\ \A j \in 0..(k - 1) : SuffixedName(name, j) \in used)

\* "{base}_merged", "{base}_merged_1", "{base}_merged_2", ...
MergedClipName(base, i) ==
    IF i = 0 THEN base \o "_merged" ELSE base \o "_merged_" \o ToString(i)

\* a faulty variant: the rename that never looks past "{base}_merged"
MergedClipNameUnchecked(base, used) == MergedClipName(base, 0)

FreshMergedClipName(base, used) ==
    MergedClipName(base,
        CHOOSE k \in 0..Cardinality(used) :
            /\ MergedClipName(base, k) \notin used
            /\ \A j \in 0..(k - 1) : MergedClipName(base, j) \in used)

\* source_grouped: the (segment, layer) groups of the source in dict order
SourceGroups(source_clips) ==
    LET segs == FirstSeen([i \in DOMAIN source_clips |-> source_clips[i].segment], {})
        LayersOf(seg) ==
            LET in_seg == Keep(source_clips, {i \in DOMAIN source_clips : source_clips[i].segment = seg})
            IN  FirstSeen([i \in DOMAIN in_seg |-> in_seg[i].layer], {})
        GroupsOf(seg) == [i \in DOMAIN LayersOf(seg) |-> <<seg, LayersOf(seg)[i]>>]
        Cat[n \in 0..Len(segs)] == IF n = 0 THEN <<>> ELSE Cat[n - 1] \o GroupsOf(segs[n])
    IN  Cat[Len(segs)]

\* the first clip of the file in (seg, layer) with that name: next(c for c in clips if ...)
FirstNamed(clips, seg_name, layer_name, name) ==
    clips[CHOOSE i \in DOMAIN clips :
            /\ clips[i].segment = seg_name /\ clips[i].layer = layer_name /\ clips[i].name = name
            /\ \A j \in DOMAIN clips :
                 (j < i => ~(clips[j].segment = seg_name /\ clips[j].layer = layer_name
                             /\ clips[j].name = name))]

\* one pass of "for clip in clips" of merge_animation_file.  st is the running state
\* [clips, max_order, next_id, names, log]; names is existing_names_in_tgt_layer
MergeOneClip(st, clip, seg_name, target_layer_name, conflict_strategy) ==
    LET is_conflict == clip.name \in st.names
    IN  IF is_conflict /\ conflict_strategy = "skip"
        THEN [st EXCEPT !.log = Append(@, [what |-> "skip", source |-> clip, before |-> st.clips,
                                            segment |-> seg_name, layer |-> target_layer_name,
                                            id |-> 0, removed |-> 0])]
        ELSE
        LET replaced == is_conflict /\ conflict_strategy = "replace"
            renamed  == is_conflict /\ conflict_strategy = "rename"
            to_remove == IF replaced
                         THEN FirstNamed(st.clips, seg_name, target_layer_name, clip.name).id
                         ELSE 0
            kept     == IF replaced THEN RemoveById(st.clips, to_remove) ELSE st.clips
            new_clip == [clip EXCEPT
                            !.id = st.next_id,
                            !.segment = seg_name,
                            !.layer = target_layer_name,
                            !.name = IF renamed THEN FreshMergedClipName(clip.name, st.names) ELSE @,
                            !.order_index = st.max_order + 1]
        IN  [clips     |-> Append(kept, new_clip),
             max_order |-> st.max_order + 1,
             next_id   |-> st.next_id + 1,
             names     |-> st.names \cup {new_clip.name},
             groups    |-> st.groups,
             log       |-> Append(st.log,
                              [what |-> IF replaced THEN "replace"
                                        ELSE IF renamed THEN "rename" ELSE "insert",
                               source |-> clip, before |-> st.clips,
                               segment |-> seg_name, layer |-> target_layer_name,
                               id |-> new_clip.id, removed |-> to_remove])]

RECURSIVE MergeGroupClips(_, _, _, _, _)
MergeGroupClips(st, group_clips, seg_name, target_layer_name, conflict_strategy) ==
    IF group_clips = <<>> THEN st
    ELSE MergeGroupClips(
            MergeOneClip(st, Head(group_clips), seg_name, target_layer_name, conflict_strategy),
            Tail(group_clips), seg_name, target_layer_name, conflict_strategy)

\* {c.layer for c in self.animation_file.clips if c.segment == seg_name}
LayersInSegment(clips, seg_name) ==
    {clips[i].layer : i \in {j \in DOMAIN clips : clips[j].segment = seg_name}}

\* a faulty variant: a layer counts as compatible when it holds the source's targets
\* among others
CompatibleLayersSubset(clips, source_clips, seg_name, layer_name) ==
    {existing_layer \in LayersInSegment(clips, seg_name) :
        \A n \in 1..3 :
            get_layer_signature(source_clips, Standalone, seg_name, layer_name)[n]
              \subseteq get_layer_signature(clips, Standalone, seg_name, existing_layer)[n]}

\* the existing layers of the segment whose signature equals the source layer's
CompatibleLayers(clips, source_clips, seg_name, layer_name) ==
    {existing_layer \in LayersInSegment(clips, seg_name) :
        get_layer_signature(source_clips, Standalone, seg_name, layer_name)
          = get_layer_signature(clips, Standalone, seg_name, existing_layer)}

\* the layers the group may resolve to: any compatible layer (the loop runs over a
\* Python set, whose order is arbitrary), else the fresh name
ResolveTargetLayers(clips, source_clips, seg_name, layer_name) ==
    LET compatible == CompatibleLayers(clips, source_clips, seg_name, layer_name)
    IN  IF compatible # {} THEN compatible
        ELSE {FreshSuffixedName(layer_name, LayersInSegment(clips, seg_name))}

RECURSIVE MergeGroups(_, _, _, _)
\* the main loop over the source's groups: the set of running states it can end in
MergeGroups(st, groups, source_clips, conflict_strategy) ==
    IF groups = <<>> THEN {st}
    ELSE
    LET seg_name   == Head(groups)[1]
        layer_name == Head(groups)[2]
        group_clips == Keep(source_clips,
                            {i \in DOMAIN source_clips :
                                source_clips[i].segment = seg_name
                                /\ source_clips[i].layer = layer_name})
    IN  UNION {
          LET names == {st.clips[i].name : i \in {j \in DOMAIN st.clips :
                            st.clips[j].segment = seg_name /\ st.clips[j].layer = target}}
              start == [st EXCEPT
                          !.names = names,
                          !.groups = Append(@, [segment |-> seg_name, layer |-> layer_name,
                                                 target |-> target, before |-> st.clips])]
          IN  MergeGroups(MergeGroupClips(start, group_clips, seg_name, target, conflict_strategy),
                          Tail(groups), source_clips, conflict_strategy)
          : target \in ResolveTargetLayers(st.clips, source_clips, seg_name, layer_name) }

\* a faulty variant: the validation without the atom-type comparison
MergeRejectionNoAtomType(file, source) ==
    IF ~file.loaded \/ file.is_scene THEN "Cannot merge into a scene file or an empty project."
    ELSE IF ~source.readable THEN "Failed to read source file"
    ELSE IF source.is_scene THEN "Cannot merge a scene file."
    ELSE None

\* the reason merge_animation_file raises MergeError, or None when it goes ahead
MergeRejection(file, source) ==
    IF ~file.loaded \/ file.is_scene THEN "Cannot merge into a scene file or an empty project."
    ELSE IF ~source.readable THEN "Failed to read source file"
    ELSE IF source.is_scene THEN "Cannot merge a scene file."
    ELSE IF file.atom_type # source.atom_type THEN "Mismatched Atom Types."
    ELSE None

\* a faulty variant: the counter does not start from the file's largest order index
merge_animation_file_unseeded(file, source, conflict_strategy, first_id) ==
    MergeGroups([clips |-> file.clips, max_order |-> -1, next_id |-> first_id,
                 names |-> {}, log |-> <<>>, groups |-> <<>>],
                SourceGroups(source.clips), source.clips, conflict_strategy)

\* AppLogic.merge_animation_file past its validation: the running states it can end in
merge_animation_file(file, source, conflict_strategy, first_id) ==
    MergeGroups([clips |-> file.clips, max_order |-> MaxOrder(file.clips), next_id |-> first_id,
                 names |-> {}, log |-> <<>>, groups |-> <<>>],
                SourceGroups(source.clips), source.clips, conflict_strategy)

----------------------------------------------------------------------------
(* app_logic.py: reorder, move / copy, delete.                             *)

RECURSIVE InsertByOrder(_, _)
InsertByOrder(sorted, c) ==
    IF sorted = <<>> THEN <<c>>
    ELSE IF Head(sorted).order_index <= c.order_index
         THEN <<Head(sorted)>> \o InsertByOrder(Tail(sorted), c)
         ELSE <<c>> \o sorted

RECURSIVE SortByOrder(_)
\* sorted(clips, key=lambda c: c.order_index): stable
SortByOrder(clips) ==
    IF clips = <<>> THEN <<>>
    ELSE InsertByOrder(SortByOrder(SubSeq(clips, 1, Len(clips) - 1)), clips[Len(clips)])

\* the 1-based position of the object in a list, 0 when absent
IndexOfId(clips, id) ==
    IF id \in IdsOf(clips) THEN CHOOSE i \in DOMAIN clips : clips[i].id = id ELSE 0

\* reorder_clips_in_layer without the anchor of lines 276-280: the dragged clips go to
\* the end of the layer
reorder_clips_to_end(file, atom_id, seg_name, layer_name, dragged_clips_ids, target_clip_id, drop_pos) ==
    LET clips_in_layer == SortByOrder(get_layer_clips(file, atom_id, seg_name, layer_name))
        reordered == Keep(clips_in_layer,
                          {i \in DOMAIN clips_in_layer : clips_in_layer[i].id \notin dragged_clips_ids})
                     \o Keep(clips_in_layer,
                             {i \in DOMAIN clips_in_layer : clips_in_layer[i].id \in dragged_clips_ids})
    IN  [i \in DOMAIN file.clips |->
            IF file.clips[i].id \in IdsOf(reordered)
            THEN [file.clips[i] EXCEPT !.order_index = IndexOfId(reordered, file.clips[i].id) - 1]
            ELSE file.clips[i]]

\* AppLogic.reorder_clips_in_layer: the file's new clip list
reorder_clips_in_layer(file, atom_id, seg_name, layer_name, dragged_clips_ids, target_clip_id, drop_pos) ==
    LET clips_in_layer  == SortByOrder(get_layer_clips(file, atom_id, seg_name, layer_name))
        dragged_clips   == Keep(clips_in_layer,
                                {i \in DOMAIN clips_in_layer : clips_in_layer[i].id \in dragged_clips_ids})
        remaining_clips == Keep(clips_in_layer,
                                {i \in DOMAIN clips_in_layer : clips_in_layer[i].id \notin dragged_clips_ids})
        found      == IndexOfId(remaining_clips, target_clip_id)
        target_idx == IF found = 0 THEN Len(remaining_clips)
                      ELSE IF drop_pos = "Below" THEN found ELSE found - 1
        reordered  == SubSeq(remaining_clips, 1, target_idx) \o dragged_clips
                      \o SubSeq(remaining_clips, target_idx + 1, Len(remaining_clips))
    IN  [i \in DOMAIN file.clips |->
            IF file.clips[i].id \in IdsOf(reordered)
            THEN [file.clips[i] EXCEPT !.order_index = IndexOfId(reordered, file.clips[i].id) - 1]
            ELSE file.clips[i]]

\* the layers of (atom, segment) in the file
LayersInAtomSegment(clips, atom_id, seg_name) ==
    {clips[i].layer : i \in {j \in DOMAIN clips :
                                clips[j].atom_id = atom_id /\ clips[j].segment = seg_name}}

\* move_or_copy_clips_to_layer without the layer resolution of lines 304-328: the
\* clips go to the layer they were dropped onto
FinalTargetLayersAsDropped(file, src_sample, tgt_atom, tgt_seg, tgt_layer_name) ==
    {tgt_layer_name}

\* final_tgt_layer_name of move_or_copy_clips_to_layer: the names it can resolve to
FinalTargetLayers(file, src_sample, tgt_atom, tgt_seg, tgt_layer_name) ==
    IF src_sample.atom_id # tgt_atom \/ src_sample.segment # tgt_seg
    THEN LET src_signature == get_layer_signature(file.clips, src_sample.atom_id,
                                                  src_sample.segment, src_sample.layer)
             layers_in_tgt_segment == LayersInAtomSegment(file.clips, tgt_atom, tgt_seg)
             compatible == {existing_layer \in layers_in_tgt_segment :
                              src_signature = get_layer_signature(file.clips, tgt_atom, tgt_seg,
                                                                  existing_layer)}
         IN  IF compatible # {} THEN compatible
             ELSE {FreshSuffixedName(src_sample.layer, layers_in_tgt_segment)}
    ELSE {tgt_layer_name}

RECURSIVE PlaceClips(_, _, _, _, _, _, _, _)
\* the loop "for src_clip in source_clips" of move_or_copy_clips_to_layer
PlaceClips(clips, src_ids, tgt_atom, tgt_seg, final_layer, is_copy, max_order, new_id) ==
    IF src_ids = <<>> THEN clips
    ELSE
    LET src_clip == ClipById(clips, Head(src_ids))
        placed   == [src_clip EXCEPT !.atom_id = tgt_atom, !.segment = tgt_seg,
                                     !.layer = final_layer, !.order_index = max_order + 1]
    IN  IF is_copy
        THEN PlaceClips(Append(clips, [placed EXCEPT !.id = new_id]), Tail(src_ids),
                        tgt_atom, tgt_seg, final_layer, is_copy, max_order + 1, new_id + 1)
        ELSE PlaceClips(Mutate(clips, src_clip.id, placed), Tail(src_ids),
                        tgt_atom, tgt_seg, final_layer, is_copy, max_order + 1, new_id)

\* move_or_copy_clips_to_layer without the deepcopy branch of lines 336-340: a copy
\* relocates the selected clips as a move does
move_clips_to_layer(file, source_clips_ids, tgt_atom, tgt_seg, tgt_layer_name, is_copy, first_id) ==
    LET source_clips == Keep(file.clips, {i \in DOMAIN file.clips : file.clips[i].id \in source_clips_ids})
    IN  { [clips |-> PlaceClips(file.clips, [i \in DOMAIN source_clips |-> source_clips[i].id],
                                tgt_atom, tgt_seg, final_layer, FALSE,
                                MaxOrder(get_layer_clips(file, tgt_atom, tgt_seg, final_layer)),
                                first_id),
           final_layer |-> final_layer]
          : final_layer \in FinalTargetLayers(file, source_clips[1], tgt_atom, tgt_seg, tgt_layer_name) }

\* AppLogic.move_or_copy_clips_to_layer with a non-empty selection: the outcomes
\* [clips, final_layer] it can produce
move_or_copy_clips_to_layer(file, source_clips_ids, tgt_atom, tgt_seg, tgt_layer_name, is_copy, first_id) ==
    LET source_clips == Keep(file.clips, {i \in DOMAIN file.clips : file.clips[i].id \in source_clips_ids})
        src_sample   == source_clips[1]
    IN  { LET clips_in_final_tgt == get_layer_clips(file, tgt_atom, tgt_seg, final_layer)
              max_order == MaxOrder(clips_in_final_tgt)
          IN  [clips |-> PlaceClips(file.clips, [i \in DOMAIN source_clips |-> source_clips[i].id],
                                    tgt_atom, tgt_seg, final_layer, is_copy, max_order, first_id),
               final_layer |-> final_layer]
          : final_layer \in FinalTargetLayers(file, src_sample, tgt_atom, tgt_seg, tgt_layer_name) }

\* a faulty variant: a segment key deletes the segment of that name in every atom
delete_items_any_atom(file, segs, layers, clips_to_delete) ==
    Keep(file.clips,
         {i \in DOMAIN file.clips :
            ~ \/ file.clips[i].id \in clips_to_delete
              \/ file.clips[i].segment \in {k[2] : k \in segs}
              \/ <<file.clips[i].atom_id, file.clips[i].segment, file.clips[i].layer>> \in layers})

\* AppLogic.delete_items with something to delete: the file's new clip list
delete_items(file, segs, layers, clips_to_delete) ==
    Keep(file.clips,
         {i \in DOMAIN file.clips :
            ~ \/ file.clips[i].id \in clips_to_delete
              \/ <<file.clips[i].atom_id, file.clips[i].segment>> \in segs
              \/ <<file.clips[i].atom_id, file.clips[i].segment, file.clips[i].layer>> \in layers})

----------------------------------------------------------------------------
(* app_logic.py: create, duplicate, rename.                                *)

\* AppLogic.create_new_segment past its guards: the file's new clip list
create_new_segment(file, name, new_id) ==
    LET max_order == MaxOrder(file.clips)
        atom_id   == IF file.clips # <<>> THEN file.clips[1].atom_id ELSE Standalone
    IN  Append(file.clips,
               AnimationClip(new_id, "New Animation", name, "Main", Unit, max_order + 1,
                             atom_id, None, None))

\* f"{base} (copy)", then f"{base} (copy {counter})" for counter = 2, 3, ...
CopyName(base, counter) ==
    IF counter = 1 THEN base \o " (copy)" ELSE base \o " (copy " \o ToString(counter) \o ")"

\* a faulty variant: the copy is numbered after its own layer, not after the file
duplicate_clip_layer_order(file, clip_obj, new_id) ==
    Append(file.clips,
           [clip_obj EXCEPT !.id = new_id, !.name = CopyName(clip_obj.name, 1),
                            !.order_index = MaxOrder(get_layer_clips(file, clip_obj.atom_id,
                                                        clip_obj.segment, clip_obj.layer)) + 1])

\* AppLogic.duplicate_clip: the file's new clip list
duplicate_clip(file, clip_obj, new_id) ==
    LET existing_names == {file.clips[i].name : i \in {j \in DOMAIN file.clips :
                              InLayer(file.clips[j], clip_obj.atom_id, clip_obj.segment, clip_obj.layer)}}
        new_name == CopyName(clip_obj.name,
                        CHOOSE k \in 1..(Cardinality(existing_names) + 1) :
                            /\ CopyName(clip_obj.name, k) \notin existing_names
                            /\ \A j \in 1..(k - 1) : CopyName(clip_obj.name, j) \in existing_names)
    IN  Append(file.clips, [clip_obj EXCEPT !.id = new_id, !.name = new_name,
                                             !.order_index = MaxOrder(file.clips) + 1])

RECURSIVE StrReplace(_, _, _)
\* str.replace(find, replace) for a non-empty find
StrReplace(s, find, replace) ==
    IF Len(s) < Len(find) THEN s
    ELSE IF SubSeq(s, 1, Len(find)) = find
         THEN replace \o StrReplace(Slice(s, Len(find), Len(s)), find, replace)
         ELSE Char(s, 1) \o StrReplace(Slice(s, 1, Len(s)), find, replace)

\* a faulty variant: the reference is rewritten on every clip of the file that holds
\* the old name
UpdateReferencesEverywhere(clips, clip, old_name, new_name) ==
    [i \in DOMAIN clips |->
        IF clips[i].NextAnimationName = old_name
        THEN [clips[i] EXCEPT !.NextAnimationName = new_name]
        ELSE clips[i]]

\* rewrite NextAnimationName from old to new on the clips of the renamed clip's layer
UpdateReferences(clips, clip, old_name, new_name) ==
    [i \in DOMAIN clips |->
        IF clips[i].NextAnimationName = old_name
           /\ InLayer(clips[i], clip.atom_id, clip.segment, clip.layer)
        THEN [clips[i] EXCEPT !.NextAnimationName = new_name]
        ELSE clips[i]]

\* the name batch_rename_clips computes for a clip
BatchName(name, find, replace, prefix, suffix) ==
    LET replaced == IF find # "" THEN StrReplace(name, find, replace) ELSE name
    IN  prefix \o replaced \o suffix

RECURSIVE batch_rename_clips(_, _, _, _, _, _, _)
\* AppLogic.batch_rename_clips: [clips, renamed_count] after the loop
batch_rename_clips(clips, ids, find, replace, prefix, suffix, renamed_count) ==
    IF ids = <<>> THEN [clips |-> clips, renamed_count |-> renamed_count]
    ELSE
    LET clip     == ClipById(clips, Head(ids))
        new_name == BatchName(clip.name, find, replace, prefix, suffix)
        is_conflict == \E i \in DOMAIN clips :
                          /\ clips[i].id # clip.id /\ clips[i].name = new_name
                          /\ InLayer(clips[i], clip.atom_id, clip.segment, clip.layer)
    IN  IF new_name = clip.name \/ is_conflict
        THEN batch_rename_clips(clips, Tail(ids), find, replace, prefix, suffix, renamed_count)
        ELSE batch_rename_clips(
                UpdateReferences(Mutate(clips, clip.id, [clip EXCEPT !.name = new_name]),
                                 clip, clip.name, new_name),
                Tail(ids), find, replace, prefix, suffix, renamed_count + 1)

\* rename_item on a clip: is the new name taken in the clip's layer
ClipNameConflict(clips, clip, new_name) ==
    \E i \in DOMAIN clips :
        /\ clips[i].id # clip.id /\ clips[i].name = new_name
        /\ InLayer(clips[i], clip.atom_id, clip.segment, clip.layer)

\* rename_item on a clip, no conflict: the file's new clip list
rename_clip(clips, clip, new_name) ==
    UpdateReferences(Mutate(clips, clip.id, [clip EXCEPT !.name = new_name]),
                     clip, clip.name, new_name)

SegmentNameConflict(clips, atom_id, new_name) ==
    \E i \in DOMAIN clips : clips[i].segment = new_name /\ clips[i].atom_id = atom_id

rename_segment(clips, atom_id, old_name, new_name) ==
    [i \in DOMAIN clips |->
        IF clips[i].atom_id = atom_id /\ clips[i].segment = old_name
        THEN [clips[i] EXCEPT !.segment = new_name] ELSE clips[i]]

\* a faulty variant: the layer is renamed in every segment of the atom
rename_layer_in_atom(clips, atom_id, seg_name, old_layer_name, new_name) ==
    [i \in DOMAIN clips |->
        IF clips[i].atom_id = atom_id /\ clips[i].layer = old_layer_name
        THEN [clips[i] EXCEPT !.layer = new_name] ELSE clips[i]]

LayerNameConflict(clips, atom_id, seg_name, new_name) ==
    \E i \in DOMAIN clips :
        clips[i].layer = new_name /\ clips[i].segment = seg_name /\ clips[i].atom_id = atom_id

rename_layer(clips, atom_id, seg_name, old_layer_name, new_name) ==
    [i \in DOMAIN clips |->
        IF InLayer(clips[i], atom_id, seg_name, old_layer_name)
        THEN [clips[i] EXCEPT !.layer = new_name] ELSE clips[i]]

----------------------------------------------------------------------------
(* app_logic.py: the position delta transform.                             *)

\* a faulty variant: only a delta of exactly 0.0 is skipped
DeltaIsExactlyZero(current_delta) == current_delta = 0

\* math.isclose(current_delta, 0.0, abs_tol=1e-6): 1e-6 is 16.78 ticks
DeltaIsZero(current_delta) == Abs(current_delta) <= 16

\* math.isclose(t, 0.0, abs_tol=1e-5): 1e-5 is 167.8 ticks
TimeIsZero(t) == Abs(t) <= 167

\* a faulty variant: no controller is passed over
EndsWithNothing(id) == FALSE

\* controller.id.endswith("Rotation")
EndsWithRotation(id) == Len(id) >= 8 /\ SubSeq(id, Len(id) - 7, Len(id)) = "Rotation"

RECURSIVE InsertByTime(_, _)
InsertByTime(sorted, k) ==
    IF sorted = <<>> THEN <<k>>
    ELSE IF Head(sorted).time <= k.time THEN <<Head(sorted)>> \o InsertByTime(Tail(sorted), k)
         ELSE <<k>> \o sorted

RECURSIVE SortByTime(_)
\* sorted(decoded, key=lambda k: k[0]): stable
SortByTime(kfs) ==
    IF kfs = <<>> THEN <<>>
    ELSE InsertByTime(SortByTime(SubSeq(kfs, 1, Len(kfs) - 1)), kfs[Len(kfs)])

\* [KeyframeDecoder.decode_keyframe(kf, 0.0, 3) for kf in axis]: every keyframe is
\* decoded against the fixed predecessor (0.0, 3)
DecodeAxis(axis) == [i \in DOMAIN axis |-> decode_keyframe(axis[i], 0, 3)]

RECURSIVE EncodeShifted(_, _, _, _)
\* the re-encoding loop over the sorted keyframes: new_v = v + current_delta is
\* encoded against (last_v, last_c) and carried forward as last_v
EncodeShifted(sorted_kfs, current_delta, last_v, last_c) ==
    IF sorted_kfs = <<>> THEN <<>>
    ELSE <<encode_keyframe(Head(sorted_kfs).time, Head(sorted_kfs).value + current_delta,
                           Head(sorted_kfs).curve_type, last_v, last_c)>>
         \o EncodeShifted(Tail(sorted_kfs), current_delta,
                          Head(sorted_kfs).value + current_delta, Head(sorted_kfs).curve_type)

\* the keyframes of one axis re-encoded from their decoded form: [ok, axis];
\* ok = FALSE when a decode raised
ShiftDecoded(axis, decoded, current_delta) ==
    IF \E i \in DOMAIN decoded : ~decoded[i].ok THEN [ok |-> FALSE, axis |-> axis]
    ELSE [ok |-> TRUE, axis |-> EncodeShifted(SortByTime(decoded), current_delta, 0, 3)]

\* one axis of one controller: skipped when the delta is close to zero
ShiftAxis(axis, current_delta) ==
    IF DeltaIsZero(current_delta) THEN [ok |-> TRUE, axis |-> axis]
    ELSE ShiftDecoded(axis, DecodeAxis(axis), current_delta)

\* the controller once its axes X, Y, Z were handled in turn: an axis is replaced as
\* soon as it is done, so a failure on a later axis leaves the earlier ones shifted
WithShiftedAxes(controller, x, y, z) ==
    IF ~x.ok THEN [ok |-> FALSE, controller |-> controller]
    ELSE IF ~y.ok THEN [ok |-> FALSE,
                        controller |-> [controller EXCEPT !.properties.X = x.axis]]
    ELSE IF ~z.ok THEN [ok |-> FALSE,
                        controller |-> [controller EXCEPT !.properties.X = x.axis,
                                                          !.properties.Y = y.axis]]
    ELSE [ok |-> TRUE,
          controller |-> [controller EXCEPT !.properties.X = x.axis,
                                            !.properties.Y = y.axis,
                                            !.properties.Z = z.axis]]

\* one controller: [ok, controller]; a "...Rotation" controller is passed over
ShiftController(controller, delta) ==
    IF EndsWithRotation(controller.id) THEN [ok |-> TRUE, controller |-> controller]
    ELSE WithShiftedAxes(controller,
                         ShiftAxis(controller.properties.X, delta[1]),
                         ShiftAxis(controller.properties.Y, delta[2]),
                         ShiftAxis(controller.properties.Z, delta[3]))

\* the first controller handled and, unless it failed, the rest after it
JoinShifted(first, rest_controllers, rest) ==
    IF ~first.ok THEN [ok |-> FALSE, controllers |-> <<first.controller>> \o rest_controllers]
    ELSE [ok |-> rest.ok, controllers |-> <<first.controller>> \o rest.controllers]

RECURSIVE ShiftControllers(_, _)
\* "for controller in clip.controllers" inside the try block: [ok, controllers]
ShiftControllers(controllers, delta) ==
    IF controllers = <<>> THEN [ok |-> TRUE, controllers |-> <<>>]
    ELSE JoinShifted(ShiftController(Head(controllers), delta), Tail(controllers),
                     ShiftControllers(Tail(controllers), delta))

\* a faulty variant: the count is raised for a clip whose decode failed as well
ShiftClipCounted(clips, clip, shifted, processed_count) ==
    [clips           |-> Mutate(clips, clip.id, [clip EXCEPT !.controllers = shifted.controllers]),
     processed_count |-> processed_count + 1]

\* one clip of the loop: the clip list and the count after it
ShiftClip(clips, clip, shifted, processed_count) ==
    [clips           |-> Mutate(clips, clip.id, [clip EXCEPT !.controllers = shifted.controllers]),
     processed_count |-> IF shifted.ok THEN processed_count + 1 ELSE processed_count]

RECURSIVE ShiftClips(_, _, _)
\* "for clip in clips" from the state [clips, processed_count] on
ShiftClips(state, ids, delta) ==
    IF ids = <<>> THEN state
    ELSE ShiftClips(ShiftClip(state.clips, ClipById(state.clips, Head(ids)),
                              ShiftControllers(ClipById(state.clips, Head(ids)).controllers,
                                               delta),
                              state.processed_count),
                    Tail(ids), delta)

\* AppLogic._apply_position_delta_to_clips: [clips, processed_count]
apply_position_delta_to_clips(clips, ids, delta, processed_count) ==
    ShiftClips([clips |-> clips, processed_count |-> processed_count], ids, delta)

\* a decoded keyframe followed by the ones after it, unless it did not decode
DecodedThen(k, rest) == IF ~k.ok THEN <<k>> ELSE <<k>> \o rest

RECURSIVE ReplayDecode(_, _, _)
\* the keyframes of an axis decoded in order, each against its predecessor, starting
\* from (last_v, last_c); stops at the first keyframe that does not decode
ReplayDecode(axis, last_v, last_c) ==
    IF axis = <<>> THEN <<>>
    ELSE DecodedThen(decode_keyframe(Head(axis), last_v, last_c),
                     ReplayDecode(Tail(axis),
                                  decode_keyframe(Head(axis), last_v, last_c).value,
                                  decode_keyframe(Head(axis), last_v, last_c).curve_type))

\* one turn of the loop of get_pos_at_time on the decoded keyframe k: the decode
\* raised, or k is at the target time, or the loop goes on
PosAtOrAfter(k, pos_after) ==
    IF ~k.ok THEN [ok |-> FALSE, v |-> 0]
    ELSE IF TimeIsZero(k.time) THEN [ok |-> TRUE, v |-> k.value]
    ELSE pos_after

RECURSIVE get_pos_at_time(_, _, _)
\* get_pos_at_time of center_root_on_first_frame over the keyframes of one axis,
\* from (last_v, last_c) on: [ok, v], 0.0 when no keyframe is at time 0
get_pos_at_time(controller_axis, last_v, last_c) ==
    IF controller_axis = <<>> THEN [ok |-> TRUE, v |-> 0]
    ELSE PosAtOrAfter(decode_keyframe(Head(controller_axis), last_v, last_c),
                      get_pos_at_time(Tail(controller_axis),
                          decode_keyframe(Head(controller_axis), last_v, last_c).value,
                          decode_keyframe(Head(controller_axis), last_v, last_c).curve_type))

RootOptions == <<"control", "hipControl", "pelvisControl">>

\* next((c for name in root_options for c in clip.controllers if c.id == name), None):
\* the position of the root controller in clip.controllers, 0 for None
RootController(clip) ==
    LET present == {n \in DOMAIN RootOptions : RootOptions[n] \in CtrlIds(clip)}
        name    == RootOptions[CHOOSE n \in present : \A m \in present : n <= m]
    IN  IF present = {} THEN 0
        ELSE CHOOSE i \in DOMAIN clip.controllers :
                /\ clip.controllers[i].id = name
                /\ \A j \in DOMAIN clip.controllers : (j < i => clip.controllers[j].id # name)

----------------------------------------------------------------------------
(* app_logic.py: save_file.                                                *)

\* "_VamTimeline.AtomPlugin" in storable_id
IsAtomPlugin(storable_id) ==
    LET m == "_VamTimeline.AtomPlugin"
    IN  \E i \in 1..(Len(storable_id) - Len(m) + 1) :
            SubSeq(storable_id, i, i + Len(m) - 1) = m

\* grouped_clips.get((atom_id, storable_id), []) of save_file
grouped_clips(file, atom_id, storable_id) ==
    Keep(file.clips, {i \in DOMAIN file.clips :
                        /\ file.clips[i].atom_id = atom_id
                        /\ file.clips[i].storable_id = storable_id})

\* AppLogic.save_file: the document handed to json.dump. A scene is the loaded
\* document with the Clips of every plugin storable that has an Animation replaced; a
\* written clip record stands for its to_dict()
save_file(file, original_json) ==
    IF file.is_scene
    THEN [atoms |-> [a \in DOMAIN original_json.atoms |->
            LET atom_data == original_json.atoms[a]
            IN  [atom_data EXCEPT !.storables = [n \in DOMAIN atom_data.storables |->
                    LET storable_data == atom_data.storables[n]
                    IN  IF IsAtomPlugin(storable_data.id) /\ storable_data.Animation
                        THEN [storable_data EXCEPT !.Clips =
                                SortByOrder(grouped_clips(file, atom_data.id, storable_data.id))]
                        ELSE storable_data]]],
          AtomType |-> None, Clips |-> <<>>]
    ELSE [atoms |-> <<>>, AtomType |-> file.atom_type, Clips |-> SortByOrder(file.clips)]

----------------------------------------------------------------------------
(* Bounds and inputs.                                                      *)

\* operations performed in one behaviour
MaxSteps == 2
\* clips in one selection, items in one deletion batch
MaxSel == 2

P1 == FloatParameter("geometry", "p1", FlatCurve(Unit, 0), None, None)
P1Bounded == FloatParameter("geometry", "p1", FlatCurve(Unit, 0), "0", "1")
P2 == FloatParameter("geometry", "p2", FlatCurve(Unit, 0), "-1", "1")
P3 == FloatParameter("plugin", "p3", FlatCurve(Unit, 0), None, None)
P4 == FloatParameter("plugin", "p4", FlatCurve(Unit, 0), None, None)
Hip == ControllerTarget("hipControl", FlatCurve(Unit, 0), FlatCurve(Unit, 0), FlatCurve(Unit, 0),
                        FlatCurve(Unit, 0), FlatCurve(Unit, 0), FlatCurve(Unit, 0),
                        <<encode_keyframe(0, Unit, 3, 0, -1), encode_keyframe(Unit, Unit, 3, Unit, 3)>>,
                        "1")
TgLive == TriggerGroup("T", "1", EmptyTriggers(Unit))
TgOff == TriggerGroup("T", "0", <<>>)

WithTargets(clip, fps, ctrls, tgs) ==
    [clip EXCEPT !.float_params = fps, !.controllers = ctrls, !.trigger_groups = tgs]

\* a standalone export as load_file leaves it: atom "(Standalone)", order_index = position
StandaloneFile ==
    AnimationFile(
        << WithTargets(AnimationClip(1, "a", "S1", "L1", Unit, 0, Standalone, None, None),
                       <<P1>>, <<>>, <<TgOff>>),
           WithTargets(AnimationClip(2, "b", "S1", "L1", Unit, 1, Standalone, None, "a"),
                       <<P1Bounded>>, <<>>, <<>>),
           WithTargets(AnimationClip(3, "a", "S1", "L2", Unit, 2, Standalone, None, None),
                       <<P2>>, <<>>, <<TgLive>>),
           WithTargets(AnimationClip(4, "c", "S2", "L1", Unit, 3, Standalone, None, "a"),
                       <<>>, <<Hip>>, <<>>) >>,
        FALSE, "Person")

Plugin == "plugin#0_VamTimeline.AtomPlugin"

\* a scene as load_file leaves it: order_index restarts in every plugin storable
SceneFile ==
    AnimationFile(
        << WithTargets(AnimationClip(1, "a", "S1", "L1", Unit, 0, "Person1", Plugin, None),
                       <<P1>>, <<>>, <<>>),
           WithTargets(AnimationClip(2, "b", "S1", "L1", Unit, 1, "Person1", Plugin, "a"),
                       <<P1>>, <<>>, <<>>),
           WithTargets(AnimationClip(3, "a", "S1", "L1", Unit, 0, "Person2", Plugin, None),
                       <<P1>>, <<>>, <<>>),
           WithTargets(AnimationClip(4, "c", "S1", "L2", Unit, 1, "Person2", Plugin, None),
                       <<>>, <<Hip>>, <<>>) >>,
        TRUE, None)

\* a storable of a scene document: Animation tells whether it has that key
Storable(id, has_animation, clips) == [id |-> id, Animation |-> has_animation, Clips |-> clips]

\* animation_file.original_json of SceneFile: the document load_file read it from
SceneJson ==
    [atoms |-> << [id |-> "Person1",
                   storables |-> << Storable("geometry", FALSE, <<>>),
                                    Storable(Plugin, TRUE, <<1, 2>>) >>],
                  [id |-> "Person2",
                   storables |-> << Storable(Plugin, TRUE, <<3, 4>>),
                                    Storable("plugin#1_Other.Plugin", TRUE, <<>>) >>] >>]

\* original_json is None for a standalone export
original_json(file) == IF file.is_scene THEN SceneJson ELSE None

\* a source document of merge_animation_file, parsed as the code parses it
SourceFile(readable, is_scene, atom_type, clips) ==
    [readable |-> readable, is_scene |-> is_scene, atom_type |-> atom_type, clips |-> clips]

SourceClip(name, segment, layer, i, fps, ctrls, tgs) ==
    WithTargets(AnimationClip(0, name, segment, layer, Unit, i, Standalone, None, None),
                fps, ctrls, tgs)

Sources ==
    { \* same signature as S1/L1: "a" collides, "d" does not
      SourceFile(TRUE, FALSE, "Person",
                 << SourceClip("a", "S1", "L1", 0, <<P1Bounded>>, <<>>, <<TgLive>>),
                    SourceClip("d", "S1", "L1", 1, <<P1>>, <<>>, <<>>) >>),
      \* no layer of S1 has this signature
      SourceFile(TRUE, FALSE, "Person",
                 << SourceClip("a", "S1", "L1", 0, <<P3>>, <<>>, <<>>) >>),
      \* two groups; S2/L1 exists with another signature, S3 does not exist
      SourceFile(TRUE, FALSE, "Person",
                 << SourceClip("a", "S1", "L1", 0, <<P4>>, <<>>, <<>>),
                    SourceClip("c", "S2", "L1", 1, <<P1>>, <<>>, <<>>),
                    SourceClip("a_merged", "S1", "L2", 2, <<P2>>, <<>>, <<TgOff>>),
                    SourceClip("a", "S1", "L2", 3, <<P2>>, <<>>, <<TgOff>>) >>),
      SourceFile(TRUE, FALSE, "Cube",
                 << SourceClip("z", "S1", "L1", 0, <<P1>>, <<>>, <<>>) >>),
      SourceFile(TRUE, TRUE, None, <<>>),
      SourceFile(FALSE, FALSE, None, <<>>) }

Strategies == {"skip", "replace", "rename"}

NewClipNames == {"a", "b", "x"}
NewSegmentNames == {"S2", "S3"}
NewLayerNames == {"L2", "L3"}

\* find, replace, prefix, suffix of batch_rename_clips
BatchInputs ==
    { [find |-> "", replace |-> "", prefix |-> "", suffix |-> "_merged"],
      [find |-> "b", replace |-> "a", prefix |-> "", suffix |-> ""],
      [find |-> "a", replace |-> "", prefix |-> "x", suffix |-> ""] }

\* the layer and segment keys the tree shows
LayerKeys(file) ==
    {<<file.clips[i].atom_id, file.clips[i].segment, file.clips[i].layer>> : i \in DOMAIN file.clips}
SegmentKeys(file) ==
    {<<file.clips[i].atom_id, file.clips[i].segment>> : i \in DOMAIN file.clips}

\* the non-empty selections of at most MaxSel of the given objects
Selections(ids) == {sel \in SUBSET ids : sel # {} /\ Cardinality(sel) <= MaxSel}

\* a selection as the list of its objects' identities in file order
InFileOrder(file, sel) ==
    LET picked == Keep(file.clips, {i \in DOMAIN file.clips : file.clips[i].id \in sel})
    IN  [i \in DOMAIN picked |-> picked[i].id]

----------------------------------------------------------------------------
(* The operations as actions.                                              *)

Snapshot == [file |-> animation_file, dirty |-> dirty]

\* what every handler does around its effect: the pre-state is kept and the step counted
Done(op, args, err, out) ==
    /\ pre' = Snapshot
    /\ last' = [op |-> op, args |-> args, err |-> err, out |-> out]
    /\ steps' = steps + 1
    /\ cx' = cx

Unchanged == UNCHANGED <<animation_file, dirty, next_id>>

\* the handler replaced the clip list and called mark_as_dirty
Mutated(clips) ==
    /\ animation_file' = [animation_file EXCEPT !.clips = clips]
    /\ dirty' = TRUE

MergeLayers ==
    /\ steps < MaxSteps
    /\ \E src \in LayerKeys(animation_file), tgt \in LayerKeys(animation_file) :
         IF MergeLayersRejected(src, tgt)
         THEN /\ Unchanged
              /\ Done("merge_layers", [src |-> src, tgt |-> tgt], "Invalid Operation", None)
         ELSE /\ ~MergeLayersDiverges(get_layer_clips(animation_file, src[1], src[2], src[3]),
                                      get_layer_clips(animation_file, tgt[1], tgt[2], tgt[3]))
              /\ Mutated(merge_layers(animation_file, src[1], src[2], src[3], tgt[3]))
              /\ UNCHANGED next_id
              /\ Done("merge_layers", [src |-> src, tgt |-> tgt], None, None)

MergeAnimationFile ==
    /\ steps < MaxSteps
    /\ \E source \in Sources, conflict_strategy \in Strategies :
         LET args == [source |-> source, strategy |-> conflict_strategy]
         IN  IF MergeRejection(animation_file, source) # None
             THEN /\ Unchanged
                  /\ Done("merge_animation_file", args, "MergeError",
                          MergeRejection(animation_file, source))
             ELSE \E st \in merge_animation_file(animation_file, source, conflict_strategy, next_id) :
                    /\ Mutated(st.clips)
                    /\ next_id' = st.next_id
                    /\ Done("merge_animation_file", args, None,
                            [log |-> st.log, groups |-> st.groups])

ReorderClipsInLayer ==
    /\ steps < MaxSteps
    /\ \E key \in LayerKeys(animation_file) :
         LET in_layer == IdsOf(get_layer_clips(animation_file, key[1], key[2], key[3]))
         IN  \E dragged \in Selections(in_layer), target \in in_layer \cup {0},
                drop_pos \in {"Above", "Below"} :
               /\ Mutated(reorder_clips_in_layer(animation_file, key[1], key[2], key[3],
                                                 dragged, target, drop_pos))
               /\ UNCHANGED next_id
               /\ Done("reorder_clips_in_layer",
                       [layer |-> key, dragged |-> dragged, target |-> target, drop_pos |-> drop_pos],
                       None, None)

MoveOrCopyClipsToLayer ==
    /\ steps < MaxSteps
    /\ \E sel \in Selections(IdsOf(animation_file.clips)), tgt \in LayerKeys(animation_file),
          is_copy \in BOOLEAN :
         \E res \in move_or_copy_clips_to_layer(animation_file, sel, tgt[1], tgt[2], tgt[3],
                                                is_copy, next_id) :
           /\ Mutated(res.clips)
           /\ next_id' = IF is_copy THEN next_id + Cardinality(sel) ELSE next_id
           /\ Done("move_or_copy_clips_to_layer",
                   [ids |-> InFileOrder(animation_file, sel), tgt |-> tgt, is_copy |-> is_copy],
                   None, [final_layer |-> res.final_layer])

DeleteItems ==
    /\ steps < MaxSteps
    /\ \E segs \in SUBSET SegmentKeys(animation_file), layers \in SUBSET LayerKeys(animation_file),
          clips_to_delete \in SUBSET IdsOf(animation_file.clips) :
         /\ Cardinality(segs) + Cardinality(layers) + Cardinality(clips_to_delete) \in 1..MaxSel
         /\ Mutated(delete_items(animation_file, segs, layers, clips_to_delete))
         /\ UNCHANGED next_id
         /\ Done("delete_items",
                 [segs |-> segs, layers |-> layers, clips |-> clips_to_delete], None,
                 [deleted_count |-> Len(animation_file.clips)
                                    - Len(delete_items(animation_file, segs, layers, clips_to_delete))])

CreateNewSegment ==
    /\ steps < MaxSteps
    /\ animation_file.loaded
    /\ \E name \in NewSegmentNames :
         IF \E i \in DOMAIN animation_file.clips : animation_file.clips[i].segment = name
         THEN /\ Unchanged
              /\ Done("create_new_segment", [name |-> name], "Name Conflict", None)
         ELSE /\ Mutated(create_new_segment(animation_file, name, next_id))
              /\ next_id' = next_id + 1
              /\ Done("create_new_segment", [name |-> name], None, None)

DuplicateClip ==
    /\ steps < MaxSteps
    /\ \E i \in DOMAIN animation_file.clips :
         /\ Mutated(duplicate_clip(animation_file, animation_file.clips[i], next_id))
         /\ next_id' = next_id + 1
         /\ Done("duplicate_clip", [clip |-> animation_file.clips[i].id], None, None)

BatchRenameClips ==
    /\ steps < MaxSteps
    /\ \E sel \in Selections(IdsOf(animation_file.clips)), in \in BatchInputs :
         LET res == batch_rename_clips(animation_file.clips, InFileOrder(animation_file, sel),
                                       in.find, in.replace, in.prefix, in.suffix, 0)
         IN  /\ animation_file' = [animation_file EXCEPT !.clips = res.clips]
             /\ dirty' = (dirty \/ res.renamed_count > 0)
             /\ UNCHANGED next_id
             /\ Done("batch_rename_clips",
                     [ids |-> InFileOrder(animation_file, sel), in |-> in], None,
                     [renamed_count |-> res.renamed_count])

RenameClip ==
    /\ steps < MaxSteps
    /\ \E i \in DOMAIN animation_file.clips, new_name \in NewClipNames :
         LET clip == animation_file.clips[i]
             args == [kind |-> "clip", clip |-> clip.id, new_name |-> new_name]
         IN  IF new_name = clip.name
             THEN Unchanged /\ Done("rename_item", args, None, "same name")
             ELSE IF ClipNameConflict(animation_file.clips, clip, new_name)
             THEN Unchanged /\ Done("rename_item", args, "Name Conflict", None)
             ELSE /\ Mutated(rename_clip(animation_file.clips, clip, new_name))
                  /\ UNCHANGED next_id
                  /\ Done("rename_item", args, None, None)

RenameSegment ==
    /\ steps < MaxSteps
    /\ \E key \in SegmentKeys(animation_file), new_name \in NewSegmentNames :
         LET args == [kind |-> "segment", key |-> key, new_name |-> new_name]
         IN  IF new_name = key[2]
             THEN Unchanged /\ Done("rename_item", args, None, "same name")
             ELSE IF SegmentNameConflict(animation_file.clips, key[1], new_name)
             THEN Unchanged /\ Done("rename_item", args, "Name Conflict", None)
             ELSE /\ Mutated(rename_segment(animation_file.clips, key[1], key[2], new_name))
                  /\ UNCHANGED next_id
                  /\ Done("rename_item", args, None, None)

RenameLayer ==
    /\ steps < MaxSteps
    /\ \E key \in LayerKeys(animation_file), new_name \in NewLayerNames :
         LET args == [kind |-> "layer", key |-> key, new_name |-> new_name]
         IN  IF new_name = key[3]
             THEN Unchanged /\ Done("rename_item", args, None, "same name")
             ELSE IF LayerNameConflict(animation_file.clips, key[1], key[2], new_name)
             THEN Unchanged /\ Done("rename_item", args, "Name Conflict", None)
             ELSE /\ Mutated(rename_layer(animation_file.clips, key[1], key[2], key[3], new_name))
                  /\ UNCHANGED next_id
                  /\ Done("rename_item", args, None, None)

\* AppLogic.save_file: nothing to save, or the document is written, or writing it
\* raises and Save Error is reported; the file in memory is left as it is
SaveFile ==
    /\ steps < MaxSteps
    /\ Unchanged
    /\ IF ~animation_file.loaded
       THEN Done("save_file", None, "cancelled", None)
       ELSE \E written \in BOOLEAN :
              IF written
              THEN Done("save_file", None, None,
                        [document |-> save_file(animation_file, original_json(animation_file))])
              ELSE Done("save_file", None, "Save Error", None)

NoOp == [op |-> "load_file", args |-> None, err |-> None, out |-> None]

NoCodec == [op |-> "none"]

\* the state after load_file (or with nothing loaded)
Init ==
    /\ animation_file \in {NoFile, StandaloneFile, SceneFile}
    /\ dirty = FALSE
    /\ next_id = 5
    /\ pre = [file |-> animation_file, dirty |-> FALSE]
    /\ last = NoOp
    /\ steps = 0
    /\ cx = NoCodec

Next ==
    \/ MergeLayers
    \/ MergeAnimationFile
    \/ ReorderClipsInLayer
    \/ MoveOrCopyClipsToLayer
    \/ DeleteItems
    \/ CreateNewSegment
    \/ DuplicateClip
    \/ BatchRenameClips
    \/ RenameClip
    \/ RenameSegment
    \/ RenameLayer
    \/ SaveFile

Spec == Init /\ [][Next]_vars

----------------------------------------------------------------------------
(* The position transforms as actions, on files whose controllers move.     *)

\* an axis as the serializer writes it: each keyframe encoded against its predecessor,
\* starting from (0.0, 3)
RECURSIVE ReplayEncode(_, _, _)
ReplayEncode(kfs, last_v, last_c) ==
    IF kfs = <<>> THEN <<>>
    ELSE <<encode_keyframe(Head(kfs)[1], Head(kfs)[2], Head(kfs)[3], last_v, last_c)>>
         \o ReplayEncode(Tail(kfs), Head(kfs)[2], Head(kfs)[3])

Half == Unit \div 2

\* keyframe lists (time, value, curve type) of an axis
AxisSamples ==
    { << <<0, 3 * Half, 3>>, <<Unit, 3 * Half, 3>> >>,               \* value held
      << <<0, Unit, 3>>, <<Unit, 2 * Unit, 3>> >>,                   \* every value written
      << <<0, 0, 0>>, <<Unit, Unit, 0>> >>,                          \* curve type held
      << <<0, -Unit, 3>>, <<Half, Half, 0>>, <<Unit, Half, 0>> >>,
      << <<0, 8, 3>>, <<Unit, Unit, 3>> >> }                         \* starts within 1e-6 of 0

\* a token whose value field is cut short
CutToken == "B0000803F00"

MovingController(id, x_kfs) ==
    ControllerTarget(id, ReplayEncode(x_kfs, 0, 3), FlatCurve(Unit, Unit), FlatCurve(Unit, 0),
                     FlatCurve(Unit, 0), FlatCurve(Unit, 0), FlatCurve(Unit, 0),
                     FlatCurve(Unit, Unit), "1")

\* a standalone file of two clips: the first moves its hip and turns a hand, the second
\* has another root, whose Y axis may hold a malformed token
MovingFile(x_kfs, malformed) ==
    AnimationFile(
        << WithTargets(AnimationClip(1, "a", "S1", "L1", Unit, 0, Standalone, None, None),
                       <<>>,
                       << MovingController("hipControl", x_kfs),
                          MovingController("lHandRotation", x_kfs) >>,
                       <<>>),
           WithTargets(AnimationClip(2, "b", "S1", "L1", Unit, 1, Standalone, None, None),
                       <<P1>>,
                       << IF malformed
                          THEN [MovingController("control", x_kfs) EXCEPT
                                    !.properties.Y = <<CutToken>>]
                          ELSE MovingController("control", x_kfs) >>,
                       <<>>) >>,
        FALSE, "Person")

\* offsets (x, y, z); eight ticks are below the 1e-6 skip tolerance
Offsets ==
    { <<Unit, 0, 0>>, <<-Half, Unit, 0>>, <<8, 0, Unit>>, <<0, 0, 0>> }

\* the ordered selections of at most MaxSel clips, the empty one included
Orderings(ids) ==
    {<<>>} \cup {<<a>> : a \in ids}
           \cup (IF MaxSel >= 2 THEN {<<a, b>> : a \in ids, b \in ids} \ {<<a, a>> : a \in ids}
                 ELSE {})

\* the common tail of both transforms: the delta is applied, the file marked dirty
ApplyDelta(op, clips_to_process, delta, res) ==
    /\ Mutated(res.clips)
    /\ UNCHANGED next_id
    /\ Done(op, [ids |-> clips_to_process], None,
            [applied |-> TRUE, delta |-> delta, processed_count |-> res.processed_count])

\* AppLogic.move_root_by_offset
MoveRootByOffset ==
    /\ steps < MaxSteps
    /\ animation_file.loaded
    /\ \E clips_to_process \in Orderings(IdsOf(animation_file.clips)), offsets \in Offsets :
         ApplyDelta("move_root_by_offset", clips_to_process, offsets,
                    apply_position_delta_to_clips(animation_file.clips, clips_to_process,
                                                  offsets, 0))

\* center_root_on_first_frame from p_root_local = (x, y, z) on: a keyframe that does
\* not decode raises out of the handler
CenterBy(clips_to_process, x, y, z) ==
    IF ~(x.ok /\ y.ok /\ z.ok)
    THEN Unchanged
         /\ Done("center_root_on_first_frame", [ids |-> clips_to_process], "Exception", None)
    ELSE ApplyDelta("center_root_on_first_frame", clips_to_process, <<-x.v, 0, -z.v>>,
                    apply_position_delta_to_clips(animation_file.clips, clips_to_process,
                                                  <<-x.v, 0, -z.v>>, 0))

\* a faulty variant: the root's Z position is read from its Y axis
CenterOnHeight(clips_to_process, root_controller) ==
    CenterBy(clips_to_process,
             get_pos_at_time(root_controller.properties.X, 0, 3),
             get_pos_at_time(root_controller.properties.Y, 0, 3),
             get_pos_at_time(root_controller.properties.Y, 0, 3))

\* center_root_on_first_frame from the root controller of the first clip on
CenterOn(clips_to_process, root_controller) ==
    CenterBy(clips_to_process,
             get_pos_at_time(root_controller.properties.X, 0, 3),
             get_pos_at_time(root_controller.properties.Y, 0, 3),
             get_pos_at_time(root_controller.properties.Z, 0, 3))

\* the first clip of center_root_on_first_frame and the position of its root
\* controller, 0 for none
CenterFirst(clips_to_process, clip, root) ==
    IF root = 0
    THEN Unchanged
         /\ Done("center_root_on_first_frame", [ids |-> clips_to_process], None,
                 [applied |-> FALSE, reason |-> "no root controller"])
    ELSE CenterOn(clips_to_process, clip.controllers[root])

\* AppLogic.center_root_on_first_frame
CenterRootOnFirstFrame ==
    /\ steps < MaxSteps
    /\ animation_file.loaded
    /\ \E clips_to_process \in Orderings(IdsOf(animation_file.clips)) :
         IF clips_to_process = <<>>
         THEN Unchanged
              /\ Done("center_root_on_first_frame", [ids |-> clips_to_process], None,
                      [applied |-> FALSE, reason |-> "nothing to do"])
         ELSE CenterFirst(clips_to_process,
                          ClipById(animation_file.clips, clips_to_process[1]),
                          RootController(ClipById(animation_file.clips, clips_to_process[1])))

InitDelta ==
    /\ animation_file \in {MovingFile(x_kfs, malformed) :
                              x_kfs \in AxisSamples, malformed \in BOOLEAN}
    /\ dirty = FALSE
    /\ next_id = 3
    /\ pre = [file |-> animation_file, dirty |-> FALSE]
    /\ last = NoOp
    /\ steps = 0
    /\ cx = NoCodec

NextDelta ==
    \/ MoveRootByOffset
    \/ CenterRootOnFirstFrame

SpecDelta == InitDelta /\ [][NextDelta]_vars

----------------------------------------------------------------------------
(* The codec as actions: a keyframe is encoded against a predecessor and    *)
(* the token decoded against the same predecessor.                         *)

\* times and values in ticks: singles below 1.0, one and two ticks apart, and floats
\* above 1.0 that are no single (singles are two ticks apart in [1.0, 2.0), four in
\* [2.0, 4.0))
CodecTimes == {0, 1, Half, Unit, Unit + 1, 2 * Unit + 2, 3 * Unit}

CodecValues == {0, 1, 2, -Half, Unit, Unit + 3, -2 * Unit - 2}

CodecPrevValues == {0, 2, 3, Unit + 1, Unit + 3}

CodecCurveTypes == {0, 3, 255}

\* the caller's previous curve type; FlatCurve starts an axis from -1
CodecPrevCurveTypes == {-1, 0, 3}

\* KeyframeEncoder.encode_keyframe on the drawn input
EncodeKeyframe ==
    /\ cx.op = "input"
    /\ cx' = [cx EXCEPT !.op = "encoded",
                        !.token = encode_keyframe(cx.time, cx.value, cx.curve_type,
                                                  cx.last_v, cx.last_c)]
    /\ UNCHANGED <<animation_file, dirty, next_id, pre, last, steps>>

\* KeyframeDecoder.decode_keyframe on the token, against the same predecessor
DecodeKeyframe ==
    /\ cx.op = "encoded"
    /\ cx' = [cx EXCEPT !.op = "decoded",
                        !.decoded = decode_keyframe(cx.token, cx.last_v, cx.last_c)]
    /\ UNCHANGED <<animation_file, dirty, next_id, pre, last, steps>>

\* KeyframeDecoder.decode_keyframe on a token as a clip file may hold it: the first n
\* characters of an encoder's token, none and all of them included
DecodeGivenToken ==
    /\ cx.op = "encoded"
    /\ \E n \in 0..Len(cx.token) :
         cx' = [cx EXCEPT !.op = "decoded_given",
                          !.given = SubSeq(cx.token, 1, n),
                          !.decoded = decode_keyframe(SubSeq(cx.token, 1, n),
                                                      cx.last_v, cx.last_c)]
    /\ UNCHANGED <<animation_file, dirty, next_id, pre, last, steps>>

InitCodec ==
    /\ animation_file = NoFile
    /\ dirty = FALSE
    /\ next_id = 1
    /\ pre = [file |-> animation_file, dirty |-> FALSE]
    /\ last = NoOp
    /\ steps = 0
    /\ cx \in {[op |-> "input", time |-> t, value |-> v, curve_type |-> c,
                 last_v |-> lv, last_c |-> lc, token |-> "", given |-> "",
                 decoded |-> DecodeError] :
                    t \in CodecTimes, v \in CodecValues, c \in CodecCurveTypes,
                    lv \in CodecPrevValues, lc \in CodecPrevCurveTypes}

NextCodec ==
    \/ EncodeKeyframe
    \/ DecodeKeyframe
    \/ DecodeGivenToken

SpecCodec == InitCodec /\ [][NextCodec]_vars

----------------------------------------------------------------------------
(* Properties.                                                             *)

\* the clips of one layer as the tree shows them: the atom counts in every file
LayerOf(clips, key) ==
    Keep(clips, {i \in DOMAIN clips : InLayer(clips[i], key[1], key[2], key[3])})

AllLayerKeys(clips) ==
    {<<clips[i].atom_id, clips[i].segment, clips[i].layer>> : i \in DOMAIN clips}

\* C1: clip-name uniqueness is an invariant of the file: no two clips share
\* (atomId, segment, layer, name) after any sequence of the operations (both
\* loaded files start that way)
ClipNamesUnique ==
    \A i, j \in DOMAIN animation_file.clips :
        i # j => \/ ~InLayer(animation_file.clips[i], animation_file.clips[j].atom_id,
                             animation_file.clips[j].segment, animation_file.clips[j].layer)
                 \/ animation_file.clips[i].name # animation_file.clips[j].name

\* the merge of one layer into another layer of the same atom and segment went through
MergedIntoOtherLayer ==
    /\ last.op = "merge_layers"
    /\ last.err = None
    /\ last.args.src[3] # last.args.tgt[3]

\* C3: after merge_layers of a source layer into a different target layer, every clip
\* then in the target layer has a float parameter for every (storable, name) key, a
\* controller for every controller id and a trigger group for every trigger-group
\* name that any clip of the source or the target layer had before the merge
LayerMergeTargetUnion ==
    MergedIntoOtherLayer =>
        LET before == LayerOf(pre.file.clips, last.args.src) \o LayerOf(pre.file.clips, last.args.tgt)
            after  == LayerOf(animation_file.clips, last.args.tgt)
        IN  \A i \in DOMAIN after : \A j \in DOMAIN before :
                /\ FpKeys(before[j]) \subseteq FpKeys(after[i])
                /\ CtrlIds(before[j]) \subseteq CtrlIds(after[i])
                /\ TgNames(before[j]) \subseteq TgNames(after[i])

\* a merge into another layer after which a clip that was in the target layer has
\* gained a float parameter and a trigger group it did not have, beside another clip
LayerMergeTargetUnionWitness ==
    /\ MergedIntoOtherLayer
    /\ Len(LayerOf(animation_file.clips, last.args.tgt)) >= 2
    /\ \E i \in DOMAIN animation_file.clips :
         LET c == animation_file.clips[i]
         IN  /\ InLayer(c, last.args.tgt[1], last.args.tgt[2], last.args.tgt[3])
             /\ c.id \in IdsOf(LayerOf(pre.file.clips, last.args.tgt))
             /\ FpKeys(ClipById(pre.file.clips, c.id)) # FpKeys(c)
             /\ TgNames(ClipById(pre.file.clips, c.id)) # TgNames(c)

\* the conditions under which the cross-file merge must be refused
MustReject(file, source) ==
    \/ ~file.loaded
    \/ file.is_scene
    \/ ~source.readable
    \/ source.is_scene
    \/ file.atom_type # source.atom_type

\* C4: when merge_animation_file is called with the current file absent or a scene,
\* the source unreadable or a scene document, or differing AtomType values, it raises
\* MergeError and the current file's clip list and dirty marker are as before the call
RejectedMergeMutatesNothing ==
    (last.op = "merge_animation_file" /\ MustReject(pre.file, last.args.source)) =>
        /\ last.err = "MergeError"
        /\ animation_file = pre.file
        /\ dirty = pre.dirty

\* a merge of a "Cube" export into an edited "Person" file was refused
RejectedMergeWitness ==
    /\ last.op = "merge_animation_file"
    /\ last.err = "MergeError"
    /\ pre.file.loaded /\ ~pre.file.is_scene /\ pre.file.clips # <<>>
    /\ last.args.source.readable /\ ~last.args.source.is_scene
    /\ pre.file.atom_type # last.args.source.atom_type
    /\ pre.dirty

\* C7: orderIndex is unique within a layer: no two clips of the same
\* (atomId, segment, layer) have the same orderIndex after any sequence of the
\* operations (both loaded files start that way)
OrderIndexUniqueInLayer ==
    \A i, j \in DOMAIN animation_file.clips :
        i # j => \/ ~InLayer(animation_file.clips[i], animation_file.clips[j].atom_id,
                             animation_file.clips[j].segment, animation_file.clips[j].layer)
                 \/ animation_file.clips[i].order_index # animation_file.clips[j].order_index

\* the operations that add clips to or remove clips from a layer
MembershipOps ==
    {"merge_layers", "merge_animation_file", "move_or_copy_clips_to_layer",
     "duplicate_clip", "delete_items"}

MembershipOpDone == last.op \in MembershipOps /\ last.err = None

\* the layers whose set of clips is not what it was before the last operation
ChangedLayers ==
    {key \in AllLayerKeys(animation_file.clips) :
        IdsOf(LayerOf(animation_file.clips, key)) # IdsOf(LayerOf(pre.file.clips, key))}

OrderValues(clips) == {clips[i].order_index : i \in DOMAIN clips}

TopOrder(clips) ==
    IF clips = <<>> THEN -1
    ELSE CHOOSE m \in OrderValues(clips) : \A v \in OrderValues(clips) : v <= m

\* the clips the last operation placed, in the order it placed them
PlacedIds ==
    CASE last.op = "move_or_copy_clips_to_layer" /\ ~last.args.is_copy -> last.args.ids
      [] last.op \in {"move_or_copy_clips_to_layer", "duplicate_clip", "merge_animation_file"} ->
            LET new == Keep(animation_file.clips,
                            {i \in DOMAIN animation_file.clips :
                                animation_file.clips[i].id \notin IdsOf(pre.file.clips)})
            IN  [i \in DOMAIN new |-> new[i].id]
      [] OTHER -> <<>>

\* the maximum the placed clips are numbered after
PlacedBase ==
    IF last.op = "move_or_copy_clips_to_layer"
    THEN TopOrder(get_layer_clips(pre.file, last.args.tgt[1], last.args.tgt[2],
                                  last.out.final_layer))
    ELSE TopOrder(pre.file.clips)

MergedFile == last.op = "merge_animation_file" /\ last.err = None

\* the file's clip list after the k-th source clip of the merge was handled
AfterClip(k) ==
    IF k < Len(last.out.log) THEN last.out.log[k + 1].before ELSE animation_file.clips

\* the clips of (segment, layer) in a standalone clip list
InTarget(clips, seg_name, layer_name) ==
    Keep(clips, {i \in DOMAIN clips : clips[i].segment = seg_name /\ clips[i].layer = layer_name})

NamesIn(clips) == {clips[i].name : i \in DOMAIN clips}

\* the k-th source clip's name is held by a clip of its resolved target layer
Collides(k) ==
    last.out.log[k].source.name
        \in NamesIn(InTarget(last.out.log[k].before, last.out.log[k].segment, last.out.log[k].layer))

\* the same content: everything of a clip but its place and its identity
SameContent(c, d) ==
    /\ c.name = d.name /\ c.length = d.length /\ c.NextAnimationName = d.NextAnimationName
    /\ c.float_params = d.float_params /\ c.controllers = d.controllers
    /\ c.trigger_groups = d.trigger_groups

\* every clip of before but those named name in (segment, layer) is in after as it was
OthersUnchanged(before, after, seg_name, layer_name, name) ==
    \A i \in DOMAIN before :
        (before[i].segment = seg_name /\ before[i].layer = layer_name /\ before[i].name = name)
        \/ \E j \in DOMAIN after : after[j] = before[i]

\* C8: for a source clip whose name collides in its resolved target layer, 'skip'
\* inserts nothing and leaves the file as it is, and 'replace' leaves exactly one clip
\* of that name in the layer, with the source clip's content; every other clip that
\* was in the file is unchanged
SkipAndReplaceAsSpecified ==
    (MergedFile /\ last.args.strategy \in {"skip", "replace"}) =>
        \A k \in DOMAIN last.out.log :
            LET e == last.out.log[k]
                named == Keep(AfterClip(k),
                              {i \in DOMAIN AfterClip(k) :
                                  /\ AfterClip(k)[i].segment = e.segment
                                  /\ AfterClip(k)[i].layer = e.layer
                                  /\ AfterClip(k)[i].name = e.source.name})
            IN  Collides(k) =>
                    IF last.args.strategy = "skip"
                    THEN AfterClip(k) = e.before
                    ELSE /\ Len(named) = 1
                         /\ SameContent(named[1], e.source)
                         /\ OthersUnchanged(e.before, AfterClip(k), e.segment, e.layer,
                                            e.source.name)

\* the names "{name}_merged", "{name}_merged_1", "{name}_merged_2", ... of the rename strategy
RenameCandidate(name, n) ==
    IF n = 0 THEN name \o "_merged" ELSE name \o "_merged_" \o ToString(n)

\* C9: under 'rename', a source clip whose name collides in its resolved target layer is
\* inserted under the first of "{name}_merged", "{name}_merged_1", ... that no clip of
\* that layer uses at that moment, a source clip whose name does not collide is
\* inserted under its own name, and every clip that was in the file stays as it was
RenameAsSpecified ==
    (MergedFile /\ last.args.strategy = "rename") =>
        \A k \in DOMAIN last.out.log :
            LET e    == last.out.log[k]
                used == NamesIn(InTarget(e.before, e.segment, e.layer))
                new  == ClipById(AfterClip(k), e.id)
            IN  /\ IdsOf(AfterClip(k)) = IdsOf(e.before) \cup {e.id}
                /\ e.id \notin IdsOf(e.before)
                /\ \A i \in DOMAIN e.before : AfterClip(k)[i] = e.before[i]
                /\ new.segment = e.segment /\ new.layer = e.layer
                /\ SameContent(new, [e.source EXCEPT !.name = new.name])
                /\ IF Collides(k)
                   THEN \E n \in 0..Cardinality(used) :
                            /\ new.name = RenameCandidate(e.source.name, n)
                            /\ new.name \notin used
                            /\ \A j \in 0..(n - 1) : RenameCandidate(e.source.name, j) \in used
                   ELSE new.name = e.source.name

\* a colliding clip was inserted as "a_merged_1" because "a_merged" was taken too
RenameAsSpecifiedWitness ==
    /\ MergedFile /\ last.args.strategy = "rename"
    /\ \E k \in DOMAIN last.out.log :
         /\ Collides(k)
         /\ ClipById(animation_file.clips, last.out.log[k].id).name = "a_merged_1"
    /\ \E k \in DOMAIN last.out.log : ~Collides(k)

\* the file's clip list after the g-th group of the source was handled
AfterGroup(g) ==
    IF g < Len(last.out.groups) THEN last.out.groups[g + 1].before ELSE animation_file.clips

\* the layer names "{name}", "{name}_1", "{name}_2", ... of a group that finds no layer
LayerCandidate(name, n) == IF n = 0 THEN name ELSE name \o "_" \o ToString(n)

\* C10: a (segment, layer) group of the source goes, when a layer of that segment in
\* the current file has the source layer's signature, into such a layer, and adds no
\* layer name to the segment; otherwise it goes into the layer named by the first of
\* "{name}", "{name}_1", "{name}_2", ... that no layer of the segment uses, never into
\* an existing layer.  The current file is the file as the group finds it
LayerResolutionAsSpecified ==
    MergedFile =>
        \A g \in DOMAIN last.out.groups :
            LET grp       == last.out.groups[g]
                src_clips == last.args.source.clips
                layers    == {grp.before[i].layer :
                                i \in {j \in DOMAIN grp.before : grp.before[j].segment = grp.segment}}
                matching  == {l \in layers :
                                get_layer_signature(grp.before, Standalone, grp.segment, l)
                                  = get_layer_signature(src_clips, Standalone, grp.segment, grp.layer)}
                after_layers == {AfterGroup(g)[i].layer :
                                   i \in {j \in DOMAIN AfterGroup(g) :
                                            AfterGroup(g)[j].segment = grp.segment}}
            IN  /\ \A k \in DOMAIN last.out.log :
                     LET e == last.out.log[k]
                     IN  (e.source.segment = grp.segment /\ e.source.layer = grp.layer) =>
                            /\ e.segment = grp.segment /\ e.layer = grp.target
                            /\ e.what # "skip" =>
                                 /\ ClipById(AfterClip(k), e.id).segment = grp.segment
                                 /\ ClipById(AfterClip(k), e.id).layer = grp.target
                /\ IF matching # {}
                   THEN grp.target \in matching /\ after_layers = layers
                   ELSE /\ grp.target \notin layers
                        /\ \E n \in 0..Cardinality(layers) :
                             /\ grp.target = LayerCandidate(grp.layer, n)
                             /\ \A j \in 0..(n - 1) : LayerCandidate(grp.layer, j) \in layers

\* one group of a merge went into an existing layer of its signature under another
\* name than its own, and another group into the new layer "L1_1"
LayerResolutionWitness ==
    /\ MergedFile
    /\ \E g \in DOMAIN last.out.groups :
         /\ last.out.groups[g].target = "L1_1"
         /\ last.out.groups[g].layer = "L1"
    /\ \E g \in DOMAIN last.out.groups :
         /\ last.out.groups[g].target # last.out.groups[g].layer
         /\ \E i \in DOMAIN last.out.groups[g].before :
              /\ last.out.groups[g].before[i].segment = last.out.groups[g].segment
              /\ last.out.groups[g].before[i].layer = last.out.groups[g].target
    /\ \E k \in DOMAIN last.out.log : last.out.log[k].what # "skip"

\* a float that struct.pack('<f') stores unchanged: 24 significant bits
IsSingle(k) == Abs(k) < Pow2(24) \/ k % Pow2(Log2Floor(Abs(k)) - 23) = 0

\* r is a single and no single is nearer to k (singles are at most four ticks apart
\* below 4.0)
NearestSingle(r, k) ==
    /\ IsSingle(r)
    /\ \A s \in (k - 4)..(k + 4) : IsSingle(s) => Abs(r - k) <= Abs(s - k)

\* the token holds no value: flag character 'A' or 'C'
ValueOmitted == Char(cx.token, 1) \in {"A", "C"}

\* C5: decode_keyframe(encode_keyframe(time, value, curveType, prevValue,
\* prevCurveType), prevValue, prevCurveType) returns (time, value, curveType), the value
\* within 1e-7 (one tick) when the token omits it
CodecRoundTripExact ==
    cx.op = "decoded" =>
        /\ cx.decoded.ok
        /\ cx.decoded.time = cx.time
        /\ cx.decoded.curve_type = cx.curve_type
        /\ IF ValueOmitted THEN Abs(cx.decoded.value - cx.value) <= 1
           ELSE cx.decoded.value = cx.value

\* C5, as the code has it: the time comes back as the single nearest to it, a value
\* the token holds likewise, a value the token omits as prevValue, which is within
\* 1e-7 of it, and the curve type as it was; all three exactly when time and value
\* are singles and the value is in the token
CodecRoundTripToSingle ==
    cx.op = "decoded" =>
        /\ cx.decoded.ok
        /\ NearestSingle(cx.decoded.time, cx.time)
        /\ cx.decoded.curve_type = cx.curve_type
        /\ IF ValueOmitted
           THEN cx.decoded.value = cx.last_v /\ Abs(cx.last_v - cx.value) <= 1
           ELSE NearestSingle(cx.decoded.value, cx.value)
        /\ (IsSingle(cx.time) => cx.decoded.time = cx.time)
        /\ (IsSingle(cx.value) /\ ~ValueOmitted => cx.decoded.value = cx.value)

\* a round trip of a time that is no single, with the value left out of the token
\* although it differs from prevValue
CodecRoundTripWitness ==
    /\ cx.op = "decoded"
    /\ ~IsSingle(cx.time)
    /\ ValueOmitted
    /\ cx.value # cx.last_v
    /\ cx.decoded.ok

ShiftOps == {"move_root_by_offset", "center_root_on_first_frame"}

\* the X, Y or Z keyframe list of a controller
AxisOf(controller, a) ==
    IF a = 1 THEN controller.properties.X
    ELSE IF a = 2 THEN controller.properties.Y
    ELSE controller.properties.Z

\* every stored keyframe of the X, Y and Z axes of the clip decodes
ClipDecodes(clip) ==
    \A i \in DOMAIN clip.controllers : \A a \in 1..3 :
        LET decoded == ReplayDecode(AxisOf(clip.controllers[i], a), 0, 3)
        IN  \A j \in DOMAIN decoded : decoded[j].ok

\* the replayed keyframes after are the replayed keyframes before with d added to
\* every value
ShiftedBy(before, after, d) ==
    /\ Len(after) = Len(before)
    /\ \A j \in DOMAIN before :
          /\ after[j].ok
          /\ after[j].time = before[j].time
          /\ after[j].curve_type = before[j].curve_type
          /\ after[j].value = before[j].value + d

\* C2: after the position delta was applied, every X, Y or Z axis of a non-rotation
\* controller of a processed clip whose delta d is not skipped replays to as many
\* keyframes as before, with the same times and curve types and every value
\* increased by d, also where a stored keyframe omits its value or curve type
DeltaShiftsEveryKeyframe ==
    (last.op \in ShiftOps /\ last.err = None /\ last.out.applied) =>
        \A n \in DOMAIN last.args.ids :
            LET before == ClipById(pre.file.clips, last.args.ids[n])
                after  == ClipById(animation_file.clips, last.args.ids[n])
            IN  ClipDecodes(before) =>
                \A i \in DOMAIN before.controllers : \A a \in 1..3 :
                    (~EndsWithRotation(before.controllers[i].id)
                     /\ ~DeltaIsZero(last.out.delta[a]))
                    => ShiftedBy(ReplayDecode(AxisOf(before.controllers[i], a), 0, 3),
                                 ReplayDecode(AxisOf(after.controllers[i], a), 0, 3),
                                 last.out.delta[a])


\* a move or copy went through whose selected clips all came from one layer of another
\* atom or segment than the target's
MovedAcrossContainers ==
    /\ last.op = "move_or_copy_clips_to_layer"
    /\ last.err = None
    /\ LET first == ClipById(pre.file.clips, last.args.ids[1])
       IN  /\ first.atom_id # last.args.tgt[1] \/ first.segment # last.args.tgt[2]
           /\ \A k \in DOMAIN last.args.ids :
                LET c == ClipById(pre.file.clips, last.args.ids[k])
                IN  c.atom_id = first.atom_id /\ c.segment = first.segment /\ c.layer = first.layer

\* the layers of the target (atomId, segment) before the last move or copy
TargetLayersBefore ==
    {pre.file.clips[i].layer :
        i \in {j \in DOMAIN pre.file.clips :
                 /\ pre.file.clips[j].atom_id = last.args.tgt[1]
                 /\ pre.file.clips[j].segment = last.args.tgt[2]}}

\* C11: when move_or_copy_clips_to_layer moves or copies clips of one source layer to
\* another atom or segment, every placed clip ends in the target (atomId, segment) and
\* in one layer there: an existing layer whose signature equals the source layer's
\* when the target has one, otherwise the layer named by the first of "{sourceLayer}",
\* "{sourceLayer}_1", "{sourceLayer}_2", ... that no layer of the target uses; the
\* layer name of the drop does not enter
CompatibleLayerReuseOnMove ==
    MovedAcrossContainers =>
        LET first    == ClipById(pre.file.clips, last.args.ids[1])
            matching == {l \in TargetLayersBefore :
                           get_layer_signature(pre.file.clips, last.args.tgt[1], last.args.tgt[2], l)
                             = get_layer_signature(pre.file.clips, first.atom_id, first.segment,
                                                   first.layer)}
        IN  /\ Len(PlacedIds) = Len(last.args.ids)
            /\ \A k \in DOMAIN PlacedIds :
                 LET c == ClipById(animation_file.clips, PlacedIds[k])
                 IN  /\ c.atom_id = last.args.tgt[1]
                     /\ c.segment = last.args.tgt[2]
                     /\ c.layer = last.out.final_layer
            /\ IF matching # {}
               THEN last.out.final_layer \in matching
               ELSE \E n \in 0..Cardinality(TargetLayersBefore) :
                      /\ last.out.final_layer = LayerCandidate(first.layer, n)
                      /\ last.out.final_layer \notin TargetLayersBefore
                      /\ \A j \in 0..(n - 1) : LayerCandidate(first.layer, j) \in TargetLayersBefore

\* clips dropped onto a layer of another segment went, no layer there having their
\* layer's signature, into a new layer named after their own with the suffix "_1"
CompatibleLayerReuseWitness ==
    /\ MovedAcrossContainers
    /\ last.out.final_layer # last.args.tgt[3]
    /\ last.out.final_layer \notin TargetLayersBefore
    /\ last.out.final_layer = ClipById(pre.file.clips, last.args.ids[1]).layer \o "_1"
    /\ \E i \in DOMAIN animation_file.clips :
         /\ animation_file.clips[i].id = PlacedIds[1]
         /\ animation_file.clips[i].layer = last.out.final_layer

\* the final target layer of the last move or copy, as a layer key
FinalTargetKey == <<last.args.tgt[1], last.args.tgt[2], last.out.final_layer>>

\* the selected clips whose name a clip already in the final target layer carries: for
\* a move another clip than the moved one, for a copy any clip
CollidingSelected ==
    {k \in DOMAIN last.args.ids :
        \E i \in DOMAIN LayerOf(pre.file.clips, FinalTargetKey) :
            LET d == LayerOf(pre.file.clips, FinalTargetKey)[i]
            IN  /\ d.name = ClipById(pre.file.clips, last.args.ids[k]).name
                /\ last.args.is_copy \/ d.id # last.args.ids[k]}

\* C12: when a clip moved or copied by move_or_copy_clips_to_layer has the name of a
\* clip already in the final target layer, the call reports a Name Conflict and the
\* final target layer does not end up with two clips of that name
MoveCopyReportsNameCollision ==
    (last.op = "move_or_copy_clips_to_layer" /\ CollidingSelected # {}) =>
        /\ last.err = "Name Conflict"
        /\ \A k \in CollidingSelected :
             Cardinality({i \in DOMAIN LayerOf(animation_file.clips, FinalTargetKey) :
                            LayerOf(animation_file.clips, FinalTargetKey)[i].name
                              = ClipById(pre.file.clips, last.args.ids[k]).name}) <= 1

\* the selected clip as the last move or copy placed it: the source with the target's
\* atomId and segment, the final layer and the k-th orderIndex above the base
PlacedAs(src, k) ==
    [src EXCEPT !.atom_id = last.args.tgt[1], !.segment = last.args.tgt[2],
                !.layer = last.out.final_layer,
                !.order_index = TopOrder(LayerOf(pre.file.clips, FinalTargetKey)) + k]

\* C13: move_or_copy_clips_to_layer with is_copy appends one new clip per selected clip,
\* equal to its source but for (atomId, segment, layer, orderIndex) and its identity,
\* and leaves every clip that was in the file, the sources included, as it was; without
\* is_copy the file keeps its clips, the selected ones changed in (atomId, segment,
\* layer, orderIndex) only and all others not at all.  Either way the k-th placed clip
\* gets the k-th orderIndex above the largest that was in the final target layer
\* (0, 1, ... when that layer was empty)
MoveVersusCopyEffect ==
    (last.op = "move_or_copy_clips_to_layer" /\ last.err = None) =>
        LET before == pre.file.clips
            after  == animation_file.clips
            ids    == last.args.ids
        IN  IF last.args.is_copy
            THEN /\ Len(after) = Len(before) + Len(ids)
                 /\ SubSeq(after, 1, Len(before)) = before
                 /\ \A k \in DOMAIN ids :
                      /\ after[Len(before) + k].id \notin IdsOf(before)
                      /\ [after[Len(before) + k] EXCEPT !.id = ids[k]]
                           = PlacedAs(ClipById(before, ids[k]), k)
                 /\ Cardinality(IdsOf(after)) = Len(after)
            ELSE /\ Len(after) = Len(before)
                 /\ \A i \in DOMAIN before :
                      IF \E k \in DOMAIN ids : ids[k] = before[i].id
                      THEN \E k \in DOMAIN ids :
                             ids[k] = before[i].id /\ after[i] = PlacedAs(before[i], k)
                      ELSE after[i] = before[i]

\* two clips were copied into a layer that held clips: the file has two clips more,
\* numbered upward from the layer's largest orderIndex, and the sources are where they
\* were
MoveVersusCopyWitness ==
    /\ last.op = "move_or_copy_clips_to_layer"
    /\ last.args.is_copy
    /\ Len(last.args.ids) = 2
    /\ TopOrder(LayerOf(pre.file.clips, FinalTargetKey)) >= 0
    /\ Len(animation_file.clips) = Len(pre.file.clips) + 2
    /\ animation_file.clips[Len(animation_file.clips)].order_index
         = TopOrder(LayerOf(pre.file.clips, FinalTargetKey)) + 2
    /\ \A k \in DOMAIN last.args.ids :
         ClipById(animation_file.clips, last.args.ids[k]).layer # last.out.final_layer

\* the clips of the reordered layer that were dragged, and those that were not
DraggedInLayer == IdsOf(LayerOf(pre.file.clips, last.args.layer)) \cap last.args.dragged

RemainingInLayer == IdsOf(LayerOf(pre.file.clips, last.args.layer)) \ last.args.dragged

OrderBefore(id) == ClipById(pre.file.clips, id).order_index

OrderAfter(id) == ClipById(animation_file.clips, id).order_index

\* C14: reorder_clips_in_layer adds and removes no clip, changes nothing but the
\* orderIndex of clips of the layer, and leaves the layer numbered exactly 0..n-1; of
\* two clips that were both dragged, or both not, the one with the smaller orderIndex
\* before has the smaller one after; the dragged clips are contiguous, and they end
\* immediately before the anchor ('Above'), start immediately after it ('Below'), or
\* follow every other clip when the anchor is absent or dragged itself
ReorderWithinLayer ==
    last.op = "reorder_clips_in_layer" =>
        LET before == pre.file.clips
            after  == animation_file.clips
            layer  == IdsOf(LayerOf(before, last.args.layer))
        IN  /\ Len(after) = Len(before)
            /\ \A i \in DOMAIN before :
                 /\ after[i] = [before[i] EXCEPT !.order_index = after[i].order_index]
                 /\ before[i].id \notin layer => after[i] = before[i]
            /\ {OrderAfter(id) : id \in layer} = 0..(Cardinality(layer) - 1)
            /\ \A group \in {DraggedInLayer, RemainingInLayer} : \A a, b \in group :
                 OrderBefore(a) < OrderBefore(b) => OrderAfter(a) < OrderAfter(b)
            /\ \A a, b \in DraggedInLayer : \A r \in RemainingInLayer :
                 ~(OrderAfter(a) < OrderAfter(r) /\ OrderAfter(r) < OrderAfter(b))
            /\ IF last.args.target \in RemainingInLayer
               THEN IF last.args.drop_pos = "Below"
                    THEN \E d \in DraggedInLayer : OrderAfter(d) = OrderAfter(last.args.target) + 1
                    ELSE \E d \in DraggedInLayer : OrderAfter(d) = OrderAfter(last.args.target) - 1
               ELSE \A d \in DraggedInLayer : \A r \in RemainingInLayer :
                      OrderAfter(r) < OrderAfter(d)

\* two clips of a layer of three or more were dragged from behind the anchor to the
\* place before it
ReorderWithinLayerWitness ==
    /\ last.op = "reorder_clips_in_layer"
    /\ Cardinality(DraggedInLayer) = 2
    /\ last.args.target \in RemainingInLayer
    /\ last.args.drop_pos = "Above"
    /\ \A d \in DraggedInLayer :
         /\ OrderBefore(d) > OrderBefore(last.args.target)
         /\ OrderAfter(d) < OrderAfter(last.args.target)

\* the clips of the merge's target layer, before it, that a source clip was merged
\* into: the first clip of its name in the layer, when a clip of the source layer has
\* that name
MergeTargets ==
    LET tgt == LayerOf(pre.file.clips, last.args.tgt)
        src == LayerOf(pre.file.clips, last.args.src)
    IN  {tgt[i].id : i \in {j \in DOMAIN tgt :
                              /\ \A h \in 1..(j - 1) : tgt[h].name # tgt[j].name
                              /\ \E k \in DOMAIN src : src[k].name = tgt[j].name}}

\* the trigger groups of the source clips merged into the target clip, in merge order
MergedGroups(id) ==
    LET src == LayerOf(pre.file.clips, last.args.src)
    IN  FlatTg(Keep(src, {k \in DOMAIN src : src[k].name = ClipById(pre.file.clips, id).name}))

\* the name a source group of the given name goes under on a clip carrying the names
\* used: its own, or when that is used the first unused of "{name} (merged)",
\* "{name} (merged 2)", "{name} (merged 3)", ...
GroupNameAsSpecified(name, used, result) ==
    IF name \notin used THEN result = name
    ELSE \E n \in 1..(Cardinality(used) + 1) :
            /\ result = MergedTgName(name, n)
            /\ result \notin used
            /\ \A j \in 1..(n - 1) : MergedTgName(name, j) \in used

\* C15: after merge_layers of a source layer into another layer, a target clip that
\* same-named source clips were merged into keeps its own trigger groups and has,
\* after them, one group per trigger group of those source clips, equal to it but for
\* the name: the group's own name when the clip did not yet carry it, otherwise the
\* first of "{name} (merged)", "{name} (merged 2)", "{name} (merged 3)", ... not yet
\* on the clip.  No group is dropped, and the names on the clip are pairwise distinct
\* when the target clip's own were
TriggerGroupCollisionRenaming ==
    MergedIntoOtherLayer =>
        \A id \in MergeTargets :
            LET own    == ClipById(pre.file.clips, id).trigger_groups
                added  == MergedGroups(id)
                merged == ClipById(animation_file.clips, id).trigger_groups
            IN  /\ Len(merged) >= Len(own) + Len(added)
                /\ SubSeq(merged, 1, Len(own)) = own
                /\ \A k \in DOMAIN added :
                     /\ [merged[Len(own) + k] EXCEPT !.name = added[k].name] = added[k]
                     /\ GroupNameAsSpecified(added[k].name,
                                             {merged[j].name : j \in 1..(Len(own) + k - 1)},
                                             merged[Len(own) + k].name)
                /\ Cardinality({own[j].name : j \in DOMAIN own}) = Len(own)
                     => Cardinality({merged[j].name : j \in DOMAIN merged}) = Len(merged)

\* two source clips named like a target clip, each with a trigger group "T" as the
\* target clip has one, were merged into it: it carries "T", "T (merged)" and
\* "T (merged 2)"
TriggerGroupCollisionWitness ==
    /\ MergedIntoOtherLayer
    /\ \E id \in MergeTargets :
         /\ TgNames(ClipById(pre.file.clips, id)) = {"T"}
         /\ TgNames(ClipById(animation_file.clips, id)) = {"T", "T (merged)", "T (merged 2)"}
         /\ Len(MergedGroups(id)) = 2

\* C16: merge_layers with a source and a target layer whose atomId or segment differ
\* reports Invalid Operation, and the file (every clip, every target list, the clip
\* list itself) and the dirty marker are as before the call
CrossContainerMergeRejected ==
    (/\ last.op = "merge_layers"
     /\ last.args.src[1] # last.args.tgt[1] \/ last.args.src[2] # last.args.tgt[2]) =>
        /\ last.err = "Invalid Operation"
        /\ animation_file = pre.file
        /\ dirty = pre.dirty

\* a merge of a layer into a layer of another segment or atom was refused on a file
\* without unsaved changes, whose two layers both held clips
CrossContainerMergeWitness ==
    /\ last.op = "merge_layers"
    /\ last.err = "Invalid Operation"
    /\ last.args.src[1] # last.args.tgt[1] \/ last.args.src[2] # last.args.tgt[2]
    /\ LayerOf(pre.file.clips, last.args.src) # <<>>
    /\ LayerOf(pre.file.clips, last.args.tgt) # <<>>
    /\ ~pre.dirty /\ ~dirty

\* rename_item was called on a clip with a name that is not the clip's
RenamedClip ==
    /\ last.op = "rename_item"
    /\ last.args.kind = "clip"
    /\ last.args.new_name # ClipById(pre.file.clips, last.args.clip).name

\* C17: rename_item on a clip reports Name Conflict and leaves the file as it was when
\* another clip of the clip's (atomId, segment, layer) has the new name; otherwise the
\* clip gets the new name, NextAnimationName becomes the new name on the clips of that
\* (atomId, segment, layer) that held the old name, and nothing else changes: a clip
\* of another layer, segment or atom keeps a reference to the old name
ClipRenameAsSpecified ==
    RenamedClip =>
        LET before == pre.file.clips
            after  == animation_file.clips
            clip   == ClipById(before, last.args.clip)
            taken  == \E i \in DOMAIN before :
                        /\ before[i].id # clip.id
                        /\ before[i].name = last.args.new_name
                        /\ before[i].atom_id = clip.atom_id
                        /\ before[i].segment = clip.segment
                        /\ before[i].layer = clip.layer
        IN  IF taken
            THEN /\ last.err = "Name Conflict"
                 /\ animation_file = pre.file
                 /\ dirty = pre.dirty
            ELSE /\ last.err = None
                 /\ Len(after) = Len(before)
                 /\ \A i \in DOMAIN before :
                      after[i] = [before[i] EXCEPT
                                    !.name = IF before[i].id = clip.id THEN last.args.new_name ELSE @,
                                    !.NextAnimationName =
                                        IF /\ @ = clip.name
                                           /\ before[i].atom_id = clip.atom_id
                                           /\ before[i].segment = clip.segment
                                           /\ before[i].layer = clip.layer
                                        THEN last.args.new_name ELSE @]

\* a clip was renamed that a clip of its layer and a clip of another segment both
\* named as NextAnimationName: the first now names the new name, the second the old
ClipRenameWitness ==
    /\ RenamedClip
    /\ last.err = None
    /\ \E i, j \in DOMAIN pre.file.clips :
         LET old == ClipById(pre.file.clips, last.args.clip).name
         IN  /\ pre.file.clips[i].NextAnimationName = old
             /\ pre.file.clips[j].NextAnimationName = old
             /\ animation_file.clips[i].NextAnimationName = last.args.new_name
             /\ animation_file.clips[j].NextAnimationName = old
             /\ pre.file.clips[j].segment # ClipById(pre.file.clips, last.args.clip).segment

\* rename_item was called on a segment or a layer with a name that is not its own
RenamedContainer ==
    /\ last.op = "rename_item"
    /\ last.args.kind \in {"segment", "layer"}
    /\ last.args.new_name # last.args.key[IF last.args.kind = "segment" THEN 2 ELSE 3]

\* is the clip under the renamed segment (atomId and old segment) or layer (atomId,
\* segment and old layer)
UnderRenamed(c) ==
    /\ c.atom_id = last.args.key[1]
    /\ c.segment = last.args.key[2]
    /\ last.args.kind = "layer" => c.layer = last.args.key[3]

\* does the atom hold a segment, or the atom's segment a layer, of the new name
NewNameTaken ==
    \E i \in DOMAIN pre.file.clips :
        LET c == pre.file.clips[i]
        IN  /\ c.atom_id = last.args.key[1]
            /\ IF last.args.kind = "segment"
               THEN c.segment = last.args.new_name
               ELSE c.segment = last.args.key[2] /\ c.layer = last.args.new_name

\* C18: rename_item on a segment (or layer) reports Name Conflict and leaves the file
\* as it was when the atom (or the atom's segment) has a segment (or layer) of the new
\* name; otherwise every clip under the atomId and old segment (or atomId, segment and
\* old layer) has the new name in its segment (or layer) field and is otherwise as
\* before, and every other clip is as before: the file holds the same clips in the
\* same places
ContainerRenameAsSpecified ==
    RenamedContainer =>
        IF NewNameTaken
        THEN /\ last.err = "Name Conflict"
             /\ animation_file = pre.file
             /\ dirty = pre.dirty
        ELSE /\ last.err = None
             /\ Len(animation_file.clips) = Len(pre.file.clips)
             /\ \A i \in DOMAIN pre.file.clips :
                  animation_file.clips[i] =
                      IF ~UnderRenamed(pre.file.clips[i]) THEN pre.file.clips[i]
                      ELSE IF last.args.kind = "segment"
                           THEN [pre.file.clips[i] EXCEPT !.segment = last.args.new_name]
                           ELSE [pre.file.clips[i] EXCEPT !.layer = last.args.new_name]

\* a layer was renamed while another segment of the atom has a layer of the old name,
\* which keeps it
ContainerRenameWitness ==
    /\ RenamedContainer
    /\ last.args.kind = "layer"
    /\ last.err = None
    /\ \E i, j \in DOMAIN pre.file.clips :
         /\ UnderRenamed(pre.file.clips[i])
         /\ animation_file.clips[i].layer = last.args.new_name
         /\ pre.file.clips[j].atom_id = last.args.key[1]
         /\ pre.file.clips[j].segment # last.args.key[2]
         /\ pre.file.clips[j].layer = last.args.key[3]
         /\ animation_file.clips[j].layer = last.args.key[3]

\* is the clip one the last delete_items was to remove: a given clip, or a clip of a
\* given (atomId, segment) or of a given (atomId, segment, layer)
ToDelete(c) ==
    \/ c.id \in last.args.clips
    \/ \E k \in last.args.segs : c.atom_id = k[1] /\ c.segment = k[2]
    \/ \E k \in last.args.layers : c.atom_id = k[1] /\ c.segment = k[2] /\ c.layer = k[3]

\* C19: delete_items given segment keys, layer keys and clips removes the clips that
\* are a given clip or lie in a given (atomId, segment) or (atomId, segment, layer),
\* and no other: the file's clip list is the list before without them, the remaining
\* clips unchanged and in their order, and the reported count is their number
BatchDeletionAsSpecified ==
    last.op = "delete_items" =>
        LET before == pre.file.clips
            doomed == {i \in DOMAIN before : ToDelete(before[i])}
        IN  /\ Len(animation_file.clips) = Len(before) - Cardinality(doomed)
            /\ \A i \in DOMAIN before \ doomed :
                 animation_file.clips[i - Cardinality({j \in doomed : j < i})] = before[i]
            /\ last.out.deleted_count = Cardinality(doomed)

\* a layer key and a clip outside that layer were given together: the layer's clips
\* and the clip are gone, and a clip that followed a removed one is still there
BatchDeletionWitness ==
    /\ last.op = "delete_items"
    /\ last.args.segs = {}
    /\ Cardinality(last.args.layers) = 1
    /\ Cardinality(last.args.clips) = 1
    /\ \E i \in DOMAIN pre.file.clips :
         /\ pre.file.clips[i].id \in last.args.clips
         /\ <<pre.file.clips[i].atom_id, pre.file.clips[i].segment, pre.file.clips[i].layer>>
              \notin last.args.layers
    /\ last.out.deleted_count >= 2
    /\ \E i, j \in DOMAIN pre.file.clips :
         /\ i < j
         /\ ToDelete(pre.file.clips[i])
         /\ pre.file.clips[j].id \in IdsOf(animation_file.clips)

\* the value an axis replays to at time 0 (tolerance 1e-5), 0 when it has no keyframe
\* there
ValueAtZero(axis) ==
    LET decoded == ReplayDecode(axis, 0, 3)
        at_zero == {j \in DOMAIN decoded : decoded[j].ok /\ TimeIsZero(decoded[j].time)}
    IN  IF at_zero = {} THEN 0
        ELSE decoded[CHOOSE j \in at_zero : \A h \in at_zero : j <= h].value

\* the root controller of a clip: the first controller whose id is the first of
\* control, hipControl, pelvisControl that the clip has
RootOf(clip) ==
    LET name == IF "control" \in CtrlIds(clip) THEN "control"
                ELSE IF "hipControl" \in CtrlIds(clip) THEN "hipControl"
                ELSE "pelvisControl"
    IN  clip.controllers[CHOOSE i \in DOMAIN clip.controllers :
                            /\ clip.controllers[i].id = name
                            /\ \A j \in 1..(i - 1) : clip.controllers[j].id # name]

\* center_root_on_first_frame returned after applying a delta
Centered ==
    /\ last.op = "center_root_on_first_frame"
    /\ last.err = None
    /\ last.out.applied

\* the root controller of the first selected clip before and after the centering
RootBefore == RootOf(ClipById(pre.file.clips, last.args.ids[1]))

RootAfter == RootOf(ClipById(animation_file.clips, last.args.ids[1]))

\* the delta of the last centering is (-x0, 0, -z0), x0 and z0 being the values the
\* X and Z axes of the first clip's root controller replayed to at time 0 before
DeltaFromFirstClip ==
    last.out.delta = << -ValueAtZero(RootBefore.properties.X), 0,
                        -ValueAtZero(RootBefore.properties.Z) >>

\* every selected clip had the delta of the last centering applied: on each of its
\* controllers that is no "...Rotation" controller, the X and the Z axis replay at
\* time 0 to the value before plus the delta of the axis, or are as before when that
\* delta is within 1e-6 of 0; the Y axis is as before
DeltaAppliedToSelection ==
    \A n \in DOMAIN last.args.ids :
        LET before == ClipById(pre.file.clips, last.args.ids[n])
            after  == ClipById(animation_file.clips, last.args.ids[n])
        IN  /\ Len(after.controllers) = Len(before.controllers)
            /\ \A i \in DOMAIN before.controllers :
                 IF EndsWithRotation(before.controllers[i].id)
                 THEN after.controllers[i] = before.controllers[i]
                 ELSE /\ AxisOf(after.controllers[i], 2) = AxisOf(before.controllers[i], 2)
                      /\ \A a \in {1, 3} :
                           IF DeltaIsZero(last.out.delta[a])
                           THEN AxisOf(after.controllers[i], a) = AxisOf(before.controllers[i], a)
                           ELSE ValueAtZero(AxisOf(after.controllers[i], a))
                                  = ValueAtZero(AxisOf(before.controllers[i], a))
                                    + last.out.delta[a]

NearZero(d) == -16 <= d /\ d <= 16

\* a position delta was applied by one of the two transforms
DeltaApplied == last.op \in ShiftOps /\ last.err = None /\ last.out.applied

\* C21: after the position delta was applied, an X, Y or Z axis whose delta component
\* is within 1e-6 of 0 holds, on every controller of every clip, the keyframe strings
\* it held before, whatever the other components are; with all three components
\* within 1e-6 of 0 every clip is as it was
ZeroDeltaIsIdentity ==
    DeltaApplied =>
        /\ Len(animation_file.clips) = Len(pre.file.clips)
        /\ \A n \in DOMAIN pre.file.clips :
             /\ Len(animation_file.clips[n].controllers) = Len(pre.file.clips[n].controllers)
             /\ \A i \in DOMAIN pre.file.clips[n].controllers : \A a \in 1..3 :
                  NearZero(last.out.delta[a]) =>
                      AxisOf(animation_file.clips[n].controllers[i], a)
                        = AxisOf(pre.file.clips[n].controllers[i], a)
        /\ (\A a \in 1..3 : NearZero(last.out.delta[a])) =>
              animation_file.clips = pre.file.clips

\* an offset with a non-zero X component within 1e-6 of 0 and a Z component of 1.0
\* was applied to a clip: the Z axis of its root changed, its X axis did not
ZeroDeltaWitness ==
    /\ DeltaApplied
    /\ last.out.delta[1] # 0 /\ NearZero(last.out.delta[1])
    /\ ~NearZero(last.out.delta[3])
    /\ last.args.ids # <<>>
    /\ LET before == ClipById(pre.file.clips, last.args.ids[1]).controllers[1]
           after  == ClipById(animation_file.clips, last.args.ids[1]).controllers[1]
       IN  /\ after.properties.Z # before.properties.Z
           /\ after.properties.X = before.properties.X
           /\ before.properties.X # <<>>

\* the controller with the X, Y and Z keyframe lists of another
WithPositionOf(controller, other) ==
    [controller EXCEPT !.properties.X = other.properties.X,
                       !.properties.Y = other.properties.Y,
                       !.properties.Z = other.properties.Z]

\* a controller whose id ends with "Rotation"
IsRotationController(controller) ==
    /\ Len(controller.id) >= 8
    /\ \E k \in 0..(Len(controller.id) - 8) :
         /\ k + 8 = Len(controller.id)
         /\ SubSeq(controller.id, k + 1, k + 8) = "Rotation"

\* C22: after the position delta was applied, for any delta, every clip is as before
\* but for its controllers (float parameters, trigger groups and all other fields
\* unchanged), every controller is as before but for its X, Y and Z keyframe lists
\* (RotX, RotY, RotZ and RotW unchanged), and a controller whose id ends with
\* "Rotation" is as before in every axis
DeltaNeverReorients ==
    DeltaApplied =>
        /\ Len(animation_file.clips) = Len(pre.file.clips)
        /\ \A n \in DOMAIN pre.file.clips :
             LET before == pre.file.clips[n]
                 after  == animation_file.clips[n]
             IN  /\ after = [before EXCEPT !.controllers = after.controllers]
                 /\ after.float_params = before.float_params
                 /\ after.trigger_groups = before.trigger_groups
                 /\ Len(after.controllers) = Len(before.controllers)
                 /\ \A i \in DOMAIN before.controllers :
                      /\ after.controllers[i]
                           = WithPositionOf(before.controllers[i], after.controllers[i])
                      /\ IsRotationController(before.controllers[i])
                           => after.controllers[i] = before.controllers[i]

\* a delta was applied to a clip that has a root and a "...Rotation" controller with
\* the same X keyframes: the root's X axis changed, the other controller did not
DeltaNeverReorientsWitness ==
    /\ DeltaApplied
    /\ \E n \in DOMAIN pre.file.clips : \E i, j \in DOMAIN pre.file.clips[n].controllers :
         /\ IsRotationController(pre.file.clips[n].controllers[j])
         /\ ~IsRotationController(pre.file.clips[n].controllers[i])
         /\ pre.file.clips[n].controllers[i].properties.X
              = pre.file.clips[n].controllers[j].properties.X
         /\ animation_file.clips[n].controllers[i].properties.X
              # pre.file.clips[n].controllers[i].properties.X
         /\ animation_file.clips[n].controllers[j] = pre.file.clips[n].controllers[j]
         /\ pre.file.clips[n].controllers[j].properties.RotW # <<>>

\* does the clip fail in the batch of the last transform: an X, Y or Z axis that is
\* not skipped, on a controller that is not passed over, holds a token that does not
\* decode
FailsInBatch(clip) ==
    \E i \in DOMAIN clip.controllers : \E a \in 1..3 :
        /\ ~IsRotationController(clip.controllers[i])
        /\ ~NearZero(last.out.delta[a])
        /\ \E j \in DOMAIN AxisOf(clip.controllers[i], a) :
             ~decode_keyframe(AxisOf(clip.controllers[i], a)[j], 0, 3).ok

\* the clips of the last batch that complete, in batch order
CompletingIds ==
    Keep(last.args.ids,
         {k \in DOMAIN last.args.ids : ~FailsInBatch(ClipById(pre.file.clips, last.args.ids[k]))})

\* C23: when the decode fails on a clip of the position delta batch, every clip of
\* the batch that decodes, before or after it, ends as the batch without the failing
\* clips leaves it, and processed_count is the number of clips of the batch that
\* completed without error
FailureIsolatedPerClip ==
    DeltaApplied =>
        /\ last.out.processed_count = Len(CompletingIds)
        /\ \A k \in DOMAIN CompletingIds :
             ClipById(animation_file.clips, CompletingIds[k])
               = ClipById(apply_position_delta_to_clips(pre.file.clips, CompletingIds,
                                                        last.out.delta, 0).clips,
                          CompletingIds[k])

\* a batch of two clips whose first clip failed on a malformed token: the second clip
\* was moved all the same, and one clip was counted
FailureIsolatedWitness ==
    /\ DeltaApplied
    /\ Len(last.args.ids) = 2
    /\ FailsInBatch(ClipById(pre.file.clips, last.args.ids[1]))
    /\ ~FailsInBatch(ClipById(pre.file.clips, last.args.ids[2]))
    /\ last.out.processed_count = 1
    /\ ClipById(animation_file.clips, last.args.ids[2])
         # ClipById(pre.file.clips, last.args.ids[2])

\* the number of clips the merge had inserted once the k-th source clip was handled
InsertedUpTo(k) == Cardinality({h \in 1..k : last.out.log[h].what # "skip"})

\* C24: merge_animation_file gives the j-th clip it inserts the orderIndex m + j, m
\* being the largest orderIndex of the file before the merge and -1 for a file without
\* clips: the count runs on from one (segment, layer) group to the next, a skipped
\* clip takes no value, and an inserted clip keeps its value to the end of the merge
MergeOrderIndexesContinue ==
    MergedFile =>
        \A k \in DOMAIN last.out.log :
            last.out.log[k].what # "skip" =>
                /\ ClipById(AfterClip(k), last.out.log[k].id).order_index
                     = TopOrder(pre.file.clips) + InsertedUpTo(k)
                /\ \A i \in DOMAIN animation_file.clips :
                     animation_file.clips[i].id = last.out.log[k].id
                       => animation_file.clips[i].order_index
                            = TopOrder(pre.file.clips) + InsertedUpTo(k)

\* a merge of several groups into a file whose largest orderIndex was not in the
\* target layers skipped one clip and inserted clips of two groups, the last of them
\* numbered after the first ones
MergeOrderIndexesWitness ==
    /\ MergedFile
    /\ Len(last.out.groups) >= 2
    /\ TopOrder(pre.file.clips) >= 1
    /\ \E k \in DOMAIN last.out.log : last.out.log[k].what = "skip"
    /\ \E h, k \in DOMAIN last.out.log :
         /\ h < k
         /\ last.out.log[h].what # "skip" /\ last.out.log[k].what # "skip"
         /\ last.out.log[h].layer # last.out.log[k].layer
         /\ ClipById(animation_file.clips, last.out.log[k].id).order_index
              = TopOrder(pre.file.clips) + InsertedUpTo(k)
         /\ InsertedUpTo(k) >= 2

\* a keyframe was encoded: cx holds the input and the token
Encoded == cx.op \in {"encoded", "decoded"}

\* the value differs from the previous value by more than 1e-7: by two ticks or more
ValueBit == cx.value - cx.last_v >= 2 \/ cx.last_v - cx.value >= 2

CurveTypeBit == cx.curve_type # cx.last_c

\* C25: the token of encode_keyframe is a flag character, 'A' plus bit 0 (set iff
\* |value - prevValue| > 1e-7) plus twice bit 1 (set iff curveType # prevCurveType),
\* then the 8 hex characters of the time, then the 8 hex characters of the value iff
\* bit 0 is set, then the 2 hex characters of the curve type iff bit 1 is set, and
\* nothing else; with neither bit set it is 'A' and the time, 9 characters
TokenShape ==
    Encoded =>
        LET tok == cx.token
            v   == IF ValueBit THEN 8 ELSE 0
            c   == IF CurveTypeBit THEN 2 ELSE 0
        IN  /\ Len(tok) = 9 + v + c
            /\ SubSeq(tok, 1, 1) = (IF ValueBit THEN (IF CurveTypeBit THEN "D" ELSE "B")
                                    ELSE (IF CurveTypeBit THEN "C" ELSE "A"))
            /\ \A i \in 2..Len(tok) : \E d \in 1..16 :
                 SubSeq(tok, i, i) = SubSeq("0123456789ABCDEF", d, d)
            /\ SubSeq(tok, 2, 9) = HexOf(PackF32(cx.time))
            /\ ValueBit => SubSeq(tok, 10, 17) = HexOf(PackF32(cx.value))
            /\ CurveTypeBit => SubSeq(tok, 10 + v, 11 + v) = HexByte(cx.curve_type)

\* a keyframe whose value is one tick (6e-8) from the previous value and whose curve
\* type is the previous one was encoded into 'A' and 8 characters
TokenShapeWitness ==
    /\ Encoded
    /\ cx.value # cx.last_v
    /\ ~ValueBit /\ ~CurveTypeBit
    /\ Len(cx.token) = 9
    /\ SubSeq(cx.token, 1, 1) = "A"
    /\ cx.time # 0

\* the number of characters the flag character of a token demands: the flag, 8 of the
\* time, 8 more when the value bit is set, 2 more when the curve-type bit is set
Demanded(tok) ==
    LET flag == SubSeq(tok, 1, 1)
    IN  9 + (IF flag \in {"B", "D"} THEN 8 ELSE 0) + (IF flag \in {"C", "D"} THEN 2 ELSE 0)

TokenTooShort(tok) == tok = "" \/ Len(tok) < Demanded(tok)

\* C26: decode_keyframe fails and returns no keyframe when the token is empty or has
\* fewer characters than its flag character demands
MalformedTokenRejected ==
    (cx.op = "decoded_given" /\ TokenTooShort(cx.given)) => cx.decoded = DecodeError

\* a token with both bits set and one character short of its 19 was refused
MalformedTokenWitness ==
    /\ cx.op = "decoded_given"
    /\ Len(cx.given) = 18
    /\ SubSeq(cx.given, 1, 1) = "D"
    /\ ~cx.decoded.ok

\* merge_layers ran to its end
LayersMerged == last.op = "merge_layers" /\ last.err = None

\* the source clips, then the target clips, as they were before merge_layers
UnionBefore ==
    get_layer_clips(pre.file, last.args.src[1], last.args.src[2], last.args.src[3])
    \o get_layer_clips(pre.file, last.args.tgt[1], last.args.tgt[2], last.args.tgt[3])

TargetLayerAfter ==
    get_layer_clips(animation_file, last.args.tgt[1], last.args.tgt[2], last.args.tgt[3])

\* the float parameters, controllers, trigger groups of a key in enumeration order
FpCarried(k) ==
    LET items == FlatFp(UnionBefore)
    IN  Keep(items, {i \in DOMAIN items : FpKey(items[i]) = k})
CtrlCarried(k) ==
    LET items == FlatCtrl(UnionBefore)
    IN  Keep(items, {i \in DOMAIN items : items[i].id = k})
TgCarried(k) ==
    LET items == FlatTg(UnionBefore)
    IN  Keep(items, {i \in DOMAIN items : items[i].name = k})

\* the clips of the two layers that had the name of a clip
NamedBefore(name) == {i \in DOMAIN UnionBefore : UnionBefore[i].name = name}

Pick(s, first) == IF first THEN s[1] ELSE s[Len(s)]

\* every target object of a clip of the merged layer whose key no clip of that name
\* carried before, so that merge_layers made it, has the bounds, extra properties or
\* live flag of the first (or else the last) object of that key in UnionBefore
TemplateIs(first) ==
    LayersMerged =>
        \A n \in DOMAIN TargetLayerAfter :
            LET c    == TargetLayerAfter[n]
                same == NamedBefore(c.name)
            IN  /\ \A i \in DOMAIN c.float_params :
                     LET p == c.float_params[i]
                     IN  (/\ FpCarried(FpKey(p)) # <<>>
                          /\ \A j \in same : FpKey(p) \notin FpKeys(UnionBefore[j]))
                         => /\ p.min = Pick(FpCarried(FpKey(p)), first).min
                            /\ p.max = Pick(FpCarried(FpKey(p)), first).max
                /\ \A i \in DOMAIN c.controllers :
                     LET t == c.controllers[i]
                     IN  (/\ CtrlCarried(t.id) # <<>>
                          /\ \A j \in same : t.id \notin CtrlIds(UnionBefore[j]))
                         => t.properties.extra = Pick(CtrlCarried(t.id), first).properties.extra
                /\ \A i \in DOMAIN c.trigger_groups :
                     LET g == c.trigger_groups[i]
                     IN  (/\ TgCarried(g.name) # <<>>
                          /\ \A j \in same : g.name \notin TgNames(UnionBefore[j]))
                         => g.live = Pick(TgCarried(g.name), first).live

\* C27: the template merge_layers copies from, for a key that several clips of the
\* source and target layers carry, is the target object of the first clip carrying
\* the key in source-clips-then-target-clips order
TemplateFirstSeen == TemplateIs(TRUE)

\* C27, as the code has it: the template is the target object of the last clip
\* carrying the key in source-clips-then-target-clips order
TemplateLastSeen == TemplateIs(FALSE)

\* merge_layers made a trigger group for a clip from a name that two clips carried
\* with different live flags
TemplateWitness ==
    /\ LayersMerged
    /\ \E n \in DOMAIN TargetLayerAfter :
         LET c == TargetLayerAfter[n]
         IN  \E i \in DOMAIN c.trigger_groups :
               LET g == c.trigger_groups[i]
               IN  /\ Len(TgCarried(g.name)) >= 2
                   /\ TgCarried(g.name)[1].live # TgCarried(g.name)[Len(TgCarried(g.name))].live
                   /\ \A j \in NamedBefore(c.name) : g.name \notin TgNames(UnionBefore[j])
                   /\ g.live = TgCarried(g.name)[Len(TgCarried(g.name))].live

TargetLayerBefore ==
    get_layer_clips(pre.file, last.args.tgt[1], last.args.tgt[2], last.args.tgt[3])

SourceLayerBefore ==
    get_layer_clips(pre.file, last.args.src[1], last.args.src[2], last.args.src[3])

\* C28: after merge_layers, also of a layer into itself, every clip that was in the
\* target layer is still in the file and in the target layer, and a clip is removed
\* from the file only if it was a source clip and another clip of its name was in the
\* target layer
MergeLosesNoTargetClip ==
    LayersMerged =>
        /\ \A i \in DOMAIN TargetLayerBefore :
             TargetLayerBefore[i].id \in IdsOf(TargetLayerAfter)
        /\ \A i \in DOMAIN pre.file.clips :
             LET c == pre.file.clips[i]
             IN  c.id \notin IdsOf(animation_file.clips) =>
                   /\ c.id \in IdsOf(SourceLayerBefore)
                   /\ \E j \in DOMAIN TargetLayerBefore :
                        /\ TargetLayerBefore[j].id # c.id
                        /\ TargetLayerBefore[j].name = c.name

\* C29: after merge_layers all clips of the target layer carry the same float-parameter
\* keys, the same controller ids and the same trigger-group names, also when a trigger
\* group was renamed to "{name} (merged)" during the merge
MergedLayerUniform ==
    LayersMerged =>
        \A i \in DOMAIN TargetLayerAfter : \A j \in DOMAIN TargetLayerAfter :
            /\ FpKeys(TargetLayerAfter[i]) = FpKeys(TargetLayerAfter[j])
            /\ CtrlIds(TargetLayerAfter[i]) = CtrlIds(TargetLayerAfter[j])
            /\ TgNames(TargetLayerAfter[i]) = TgNames(TargetLayerAfter[j])

\* save_file wrote the document of a scene
SceneSaved == last.op = "save_file" /\ last.err = None /\ animation_file.is_scene

\* the places (atom, storable, position) of the written document that hold a clip
WrittenPlaces(id) ==
    LET atoms == last.out.document.atoms
    IN  {p \in UNION {UNION {{<<a, n, k>> : k \in DOMAIN atoms[a].storables[n].Clips}
                              : n \in DOMAIN atoms[a].storables}
                       : a \in DOMAIN atoms} :
            /\ IsAtomPlugin(atoms[p[1]].storables[p[2]].id)
            /\ atoms[p[1]].storables[p[2]].Clips[p[3]].id = id}

\* C30: after any edit operations on a loaded scene, save_file writes every clip of
\* the file in memory exactly once into the Animation.Clips of some plugin storable of
\* the written document
SaveLosesNoClip ==
    SceneSaved =>
        \A i \in DOMAIN animation_file.clips :
            Cardinality(WrittenPlaces(animation_file.clips[i].id)) = 1

====
